---- MODULE Spec2Model ----
(***************************************************************************)
(* PR_ElevenLabs: the Premiere Pro bridge and the host project it drives.   *)
(*                                                                         *)
(* UXP packaging: class PremiereBridge of src/js/premiere-bridge.js, lines *)
(* 146-400 (the file also holds an earlier draft of the class, lines       *)
(* 8-122, which the later definition supersedes). Every `await` of the     *)
(* bridge is a point where another call may run, so each action is the     *)
(* host serving one request of one call followed by the synchronous        *)
(* JavaScript up to the next request of that call.                         *)
(*                                                                         *)
(* CEP packaging: the ExtendScript host script src/unnamed/part_004, whose *)
(* functions run to completion inside the host's scripting engine: one     *)
(* action per function call.                                               *)
(***************************************************************************)
EXTENDS Integers, Sequences, FiniteSets, TLC

VARIABLES
    projectOpen,     \* premierepro.Project.getActiveProject() is non-null
    sequenceActive,  \* project.getActiveSequence() is non-null
    trackCount,      \* sequence.getAudioTrackCount()
    playhead,        \* sequence.getPlayerPosition()
    audioTrack,      \* the track index the caller asks for (index.js: audioTrack.value)
    packaging,       \* which plugin is installed: "uxp" (the bridge class) or "cep" (host script)
    items,           \* the project's items in creation order; an item's id is its index
    timeline,        \* the clips the host inserted into the active sequence, oldest first
    calls,           \* the bridge calls in flight or finished, one record per slot
    started,         \* how many bridge calls were started so far
    \* the API client (ElevenLabsAPI)
    vk,              \* the validateKey call: where it stands, what it got, what it returned
    requestLog,      \* the requests sent to the service so far, oldest first
    \* the panel's generation history (index.js)
    history,         \* let history = []
    storedHistory,   \* localStorage['elevenlabs_history']: absent, or the JSON text
    adds,            \* how many times addToHistory ran
    restores,        \* how many times restoreSettings ran
    \* the panel: setup and main screen (index.js)
    currentScreen,   \* let currentScreen = 'setup'
    storedKey,       \* localStorage['elevenlabs_api_key'], <<>> when absent
    apiKey,          \* elevenLabsAPI.apiKey
    setupApiKey,     \* setupApiKey.value
    connectDisabled, \* connectBtn.disabled
    voicesCache,     \* let voicesCache = []
    connecting,      \* the keys of the Connect clicks whose getSubscription is pending
    timers,          \* pending 600 ms timers set by a successful Connect
    inits,           \* the keys of the init() runs whose getSubscription is pending
    loads,           \* loadVoices runs whose getVoices is pending
    validated,       \* the keys the service has accepted so far
    lastValidation,  \* the getSubscription answer handled last: for whom, which key, ok
    disconnected,    \* Disconnect was clicked and Connect has not been clicked since
    voiceValue,      \* voiceSelect.value
    storedVoice,     \* localStorage['elevenlabs_last_voice'], "" when absent
    scriptText,      \* scriptText.value
    generateDisabled, \* generateBtn.disabled
    isGenerating,    \* let isGenerating = false
    autoInsert,      \* autoInsert.checked
    lastAudioPath,   \* let lastAudioPath = null, <<>> when null
    previewVisible,  \* audioPreview has class 'visible' (Play and Insert buttons)
    gen,             \* the generateBtn click handler: where it is, what it holds
    inserting,       \* importAndInsert calls of insertBtn and history clicks in flight
    generated        \* how many Generate clicks were accepted

bridgeVars == <<projectOpen, sequenceActive, trackCount, playhead, audioTrack, packaging, items,
                timeline, calls, started>>

apiVars == <<vk, requestLog>>

historyVars == <<history, storedHistory, adds, restores>>

sessionVars == <<currentScreen, storedKey, apiKey, setupApiKey, connectDisabled, voicesCache,
                 connecting, timers, inits, loads, validated, lastValidation, disconnected>>

voiceVars == <<voiceValue, storedVoice, scriptText, generateDisabled>>

genVars == <<isGenerating, autoInsert, lastAudioPath, previewVisible, gen, inserting, generated>>

vars == <<bridgeVars, apiVars, historyVars, sessionVars, voiceVars, genVars>>

\* What a step of the bridge, of the API client, of the history, of the panel's
\* screens leaves alone.
outsideBridge == <<apiVars, historyVars, sessionVars, voiceVars, genVars>>
outsideApi == <<bridgeVars, historyVars, sessionVars, voiceVars, genVars>>
outsideHistory == <<bridgeVars, apiVars, sessionVars, voiceVars, genVars>>
outsideSession == <<bridgeVars, apiVars, historyVars, genVars>>
outsideGenerate == <<bridgeVars, apiVars, sessionVars>>

hostVars == <<projectOpen, sequenceActive, trackCount, playhead, audioTrack, packaging, timeline>>

-----------------------------------------------------------------------------
(* Bounds of the model *)

MaxStarts == 2      \* bridge calls started one after the other in one behaviour
MaxTracks == 2      \* audio tracks of the active sequence
MaxTime == 1        \* playhead positions 1..MaxTime (an opaque time, never 0)
MaxValidations == 2 \* validateKey calls in one behaviour
MaxAdds == 22       \* addToHistory calls in one behaviour
MaxRestores == 1    \* restoreSettings runs in one behaviour
MaxPending == 1     \* requests of one kind (and timers) the panel has pending at once
MaxGenerates == 1   \* Generate clicks accepted in one behaviour
MaxInserts == 2     \* importAndInsert calls of Insert and history clicks in flight at once

Calls == {"A", "B"}                  \* "B" is a call that overlaps call "A"
\* Requested audioTrackIndex: a negative one, one that is the first, the last or
\* one past the last track as the track count varies, and one beyond any count.
TrackArgs == {-1, 1, 5}

NULL == -1   \* JavaScript null / undefined handle
ROOT == 0    \* project.getRootItem()

VOICEOVERS == <<"V", "o", "i", "c", "e", "o", "v", "e", "r", "s">>
VOICEOVERS_UNIQUE == VOICEOVERS \o <<" ", "1">>

\* File paths handed to the bridge, as character sequences.
Paths ==
    { <<"/", "t", "/", "a", ".", "m">>,        \* /t/a.m
      <<"t", "\\", "a">> }                     \* t\a  (no extension)

\* project.path as the host may report it: never saved (empty), a bare file
\* name, a file in the filesystem root, and files in directories.
ProjectPaths ==
    { <<>>,
      <<"p">>,
      <<"/", "p">>,
      <<"d", "/", "p">>,
      <<"d", "\\", "p">>,
      <<"d", "/", "e", "\\", "p">> }

\* track.name as the host may report it: empty, or a name.
TrackNameChoices == { <<>>, <<"M">> }

WordChars == {"a", "m", "t", "V", "o", "i", "c", "e", "v", "r", "s", "1"}  \* \w
Separators == {"/", "\\"}

-----------------------------------------------------------------------------
(* Pure helpers *)

\* The first element of sequence s that is one of `hits`, or NULL: a `for ... of` loop
\* that returns on its first hit.
FirstSuch(s, hits) ==
    IF \E k \in 1..Len(s) : s[k] \in hits
    THEN s[CHOOSE k \in 1..Len(s) : s[k] \in hits /\ \A j \in 1..(k-1) : s[j] \notin hits]
    ELSE NULL

\* filePath.split(/[/\\]/).pop()
LastSegment(path) ==
    LET seps == {k \in 1..Len(path) : path[k] \in Separators}
        last == IF seps = {} THEN 0 ELSE CHOOSE k \in seps : \A j \in seps : j <= k
    IN SubSeq(path, last + 1, Len(path))

\* name.replace(/\.\w+$/, ''): the leftmost "." followed only by word characters
\* (at least one) up to the end is cut off together with what follows it.
StripExtension(name) ==
    LET hits == {k \in 1..Len(name) :
                    /\ name[k] = "."
                    /\ k < Len(name)
                    /\ \A j \in (k+1)..Len(name) : name[j] \in WordChars}
    IN IF hits = {} THEN name
       ELSE SubSeq(name, 1, (CHOOSE k \in hits : \A j \in hits : k <= j) - 1)

BaseFilename(path) == StripExtension(LastSegment(path))

-----------------------------------------------------------------------------
(* The host project *)

NewItem(name, isBin, parent, idOk) ==
    [name |-> name, bin |-> isBin, parent |-> parent, idOk |-> idOk]

\* The children of a folder in the item list `its`, oldest first.
ItemsOf(its, folder) ==
    LET IsChild(i) == its[i].parent = folder
        ids == [i \in 1..Len(its) |-> i]
    IN SelectSeq(ids, IsChild)

\* folder.getItems()
GetItems(folder) == ItemsOf(items, folder)

\* FolderItem.cast(item) succeeds only for bins.
CastToFolder(i) == IF items[i].bin THEN i ELSE NULL

\* Variant: the name alone decides, the cast is not attempted.
FindBinByNameUncast(parent, name) ==
    LET Hit == {i \in 1..Len(items) : items[i].name = name}
    IN FirstSuch(GetItems(parent), Hit)

FindBinByName(parent, name) ==
    LET Hit == {i \in 1..Len(items) : items[i].name = name /\ CastToFolder(i) # NULL}
    IN FirstSuch(GetItems(parent), Hit)

\* The names the host may give a bin created with makeUnique = true: the requested
\* name, or a uniquified one when a sibling bin already carries it.
HostBinNames(name) ==
    IF FindBinByName(ROOT, name) = NULL THEN {name} ELSE {name, VOICEOVERS_UNIQUE}

\* The names the host may give an imported item: the file name with or without
\* its extension.
HostItemNames(path) == {BaseFilename(path), LastSegment(path)}

-----------------------------------------------------------------------------
(* Bridge calls *)

Idle ==
    [op |-> "none", pc |-> "idle", path |-> <<>>, track |-> 0, item |-> NULL,
     bin |-> NULL, folder |-> NULL, beforeIds |-> {}, beforeLen |-> 0,
     success |-> FALSE, after |-> <<>>, found |-> NULL, safeTrack |-> 0,
     result |-> NULL, err |-> "none",
     \* what the call asked of the host, kept for the properties below
     binTx |-> "none", nImport |-> 0, added |-> FALSE, target |-> NULL, how |-> "none",
     edits |-> <<>>, threw |-> "none", imported |-> NULL,
     \* getAudioTracks and getProjectPath: what the host held, and the value returned
     hostNames |-> <<>>, tracks |-> <<>>, projPath |-> <<>>, absent |-> FALSE, dir |-> <<>>]

InFlight(c) == calls[c].pc \notin {"idle", "done"}

Begin(c, op, pc, path, track, item) ==
    /\ ~InFlight(c)
    /\ calls' = [calls EXCEPT ![c] =
                    [Idle EXCEPT !.op = op, !.pc = pc, !.path = path,
                                 !.track = track, !.item = item]]
    /\ started' = started + 1
    /\ UNCHANGED <<hostVars, items, outsideBridge>>

Set(c, rec) ==
    /\ calls' = [calls EXCEPT ![c] = rec]
    /\ UNCHANGED outsideBridge

\* throw new Error(...) leaving the call
Throw(c, kind) == Set(c, [calls[c] EXCEPT !.pc = "done", !.err = kind, !.result = NULL])

\* return value leaving the call
Return(c, rec, value) == Set(c, [rec EXCEPT !.pc = "done", !.result = value])

StartGetOrCreateVoiceoverBin(c) ==
    Begin(c, "getOrCreateVoiceoverBin", "gb_find", <<>>, 0, NULL)

StartImportFile(c, path) ==
    Begin(c, "importFile", "if_project", path, 0, NULL)

\* getOrCreateVoiceoverBin has finished with `bin` inside call c.
BinResolved(c, rec, bin) ==
    IF rec.op = "getOrCreateVoiceoverBin"
    THEN Return(c, [rec EXCEPT !.bin = bin], bin)
    ELSE Set(c, [rec EXCEPT !.bin = bin, !.pc = "if_before"])

\* getActiveProject, getRootItem and the first _findBinByName(rootItem, 'Voiceovers').
\* Inside importFile the throw is caught and leaves voiceoverBin null.
GB_FindExisting(c) ==
    /\ calls[c].pc = "gb_find"
    /\ IF ~projectOpen
       THEN IF calls[c].op = "getOrCreateVoiceoverBin"
            THEN Throw(c, "NoActiveProject")
            ELSE BinResolved(c, calls[c], NULL)
       ELSE Set(c, [calls[c] EXCEPT !.bin = FindBinByName(ROOT, VOICEOVERS),
                                    !.pc = "gb_check"])
    /\ UNCHANGED <<hostVars, items, started>>

\* if (bin) return bin; otherwise executeTransaction(createBinAction('Voiceovers', true)),
\* which the host may refuse (nothing is created).
GB_CreateBin(c) ==
    /\ calls[c].pc = "gb_check"
    /\ IF calls[c].bin # NULL
       THEN /\ BinResolved(c, calls[c], calls[c].bin)
            /\ UNCHANGED items
       ELSE \E ok \in BOOLEAN, name \in HostBinNames(VOICEOVERS) :
               /\ items' = IF ok THEN Append(items, NewItem(name, TRUE, ROOT, TRUE))
                                 ELSE items
               /\ Set(c, [calls[c] EXCEPT !.binTx = IF ok THEN "ok" ELSE "refused",
                                          !.pc = "gb_requery"])
    /\ UNCHANGED <<hostVars, started>>

GB_Requery(c) ==
    /\ calls[c].pc = "gb_requery"
    /\ BinResolved(c, calls[c], FindBinByName(ROOT, VOICEOVERS))
    /\ UNCHANGED <<hostVars, items, started>>

-----------------------------------------------------------------------------
(* importFile *)

\* item.getId(), which may throw for an item (idOk = FALSE).
\* The snapshot then keys the item by name + '_' + index instead.
SnapshotKey(before, k) ==
    IF items[before[k]].idOk THEN <<before[k]>> ELSE <<items[before[k]].name, k - 1>>

SnapshotIds(before) == {SnapshotKey(before, k) : k \in 1..Len(before)}

\* Variant: the snapshot is not consulted.
LocateByIdDiffNoSnapshot(after, beforeIds) ==
    LET HasId == {i \in 1..Len(items) : items[i].idOk}
    IN FirstSuch(after, HasId)

\* for (const item of afterItems) { id = getId() or null; if (id && !beforeIds.has(id)) return item; }
LocateByIdDiff(after, beforeIds) ==
    LET IsNew == {i \in 1..Len(items) : items[i].idOk /\ <<i>> \notin beforeIds}
    IN FirstSuch(after, IsNew)

\* for (const item of afterItems) { if (item.name === baseFilename) return item; }
LocateByName(after, path) ==
    LET SameName == {i \in 1..Len(items) : items[i].name = BaseFilename(path)}
    IN FirstSuch(after, SameName)

\* Variant: >= in place of >.
LocateLastNotGrown(after, beforeLen) ==
    IF Len(after) >= beforeLen /\ after # <<>> THEN after[Len(after)] ELSE NULL

\* if (afterItems.length > beforeItems.length) return afterItems[afterItems.length - 1];
LocateLast(after, beforeLen) ==
    IF Len(after) > beforeLen THEN after[Len(after)] ELSE NULL

\* The heuristic that yields importFile's result, and the result.
Locate(after, beforeIds, beforeLen, path) ==
    IF LocateByIdDiff(after, beforeIds) # NULL
    THEN [how |-> "diff", item |-> LocateByIdDiff(after, beforeIds)]
    ELSE IF LocateByName(after, path) # NULL
    THEN [how |-> "name", item |-> LocateByName(after, path)]
    ELSE IF LocateLast(after, beforeLen) # NULL
    THEN [how |-> "last", item |-> LocateLast(after, beforeLen)]
    ELSE [how |-> "notfound", item |-> NULL]

\* What project.importFiles may do: reject the file, or report success and add
\* an item to the target folder, or report success without the folder showing
\* a new item, or fail with an exception (a rejected promise).
ImportOutcomes(path) ==
    {[success |-> FALSE, add |-> FALSE, name |-> <<>>, idOk |-> FALSE, threw |-> FALSE],
     [success |-> TRUE, add |-> FALSE, name |-> <<>>, idOk |-> FALSE, threw |-> FALSE],
     [success |-> FALSE, add |-> FALSE, name |-> <<>>, idOk |-> FALSE, threw |-> TRUE]}
    \cup {[success |-> TRUE, add |-> TRUE, name |-> n, idOk |-> k, threw |-> FALSE] :
            n \in HostItemNames(path), k \in BOOLEAN}

\* The answer drawn where the host script never reaches importFiles.
NotAsked(path) == CHOOSE o \in ImportOutcomes(path) : ~o.success /\ ~o.threw

\* Variant: importFile does not look at what getActiveProject returned.
IF_GetActiveProjectUnchecked(c) ==
    /\ calls[c].pc = "if_project"
    /\ Set(c, [calls[c] EXCEPT !.pc = "gb_find"])
    /\ UNCHANGED <<hostVars, items, started>>

IF_GetActiveProject(c) ==
    /\ calls[c].pc = "if_project"
    /\ IF ~projectOpen
       THEN Throw(c, "NoActiveProject")
       ELSE Set(c, [calls[c] EXCEPT !.pc = "gb_find"])
    /\ UNCHANGED <<hostVars, items, started>>

\* Variant: the bin is ignored and the root is searched and targeted.
SearchFolderRoot(bin) == ROOT

\* searchFolder = voiceoverBin || (await project.getRootItem())
SearchFolder(bin) == IF bin # NULL THEN bin ELSE ROOT

\* beforeItems = await searchFolder.getItems(), and the ids of the snapshot
IF_Snapshot(c) ==
    /\ calls[c].pc = "if_before"
    /\ LET folder == SearchFolder(calls[c].bin)
           before == GetItems(folder)
       IN Set(c, [calls[c] EXCEPT !.folder = folder,
                                  !.target = folder,     \* targetBin; undefined is the root
                                  !.beforeIds = SnapshotIds(before),
                                  !.beforeLen = Len(before),
                                  !.pc = "if_import"])
    /\ UNCHANGED <<hostVars, items, started>>

IF_ImportFiles(c) ==
    /\ calls[c].pc = "if_import"
    /\ \E out \in ImportOutcomes(calls[c].path) :
          /\ items' = IF out.add
                      THEN Append(items, NewItem(out.name, FALSE, calls[c].target, out.idOk))
                      ELSE items
          /\ IF out.threw     \* nothing in importFile or importAndInsert catches it
             THEN Set(c, [calls[c] EXCEPT !.nImport = @ + 1, !.threw = "import",
                                          !.pc = "done", !.err = "HostException"])
             ELSE Set(c, [calls[c] EXCEPT !.success = out.success,
                                          !.nImport = @ + 1,
                                          !.added = out.add,
                                          !.imported = IF out.add THEN Len(items) + 1
                                                       ELSE NULL,
                                          !.pc = "if_imported"])
    /\ UNCHANGED <<hostVars, started>>

\* Variant: importAndInsert does not look at what importFile returned.
FileImportedUnchecked(c, rec, item) ==
    IF rec.op = "importFile"
    THEN Return(c, rec, item)
    ELSE Set(c, [rec EXCEPT !.item = item, !.pc = "it_project"])

\* Variant: importAndInsert hands importFile's null on to its caller.
FileImportedSilent(c, rec, item) ==
    IF rec.op = "importFile" \/ item = NULL
    THEN Return(c, rec, item)
    ELSE Set(c, [rec EXCEPT !.item = item, !.pc = "it_project"])

\* importFile has finished with `item` inside call c.
FileImported(c, rec, item) ==
    IF rec.op = "importFile"
    THEN Return(c, rec, item)
    ELSE IF item = NULL
         THEN Set(c, [rec EXCEPT !.pc = "done", !.err = "ImportItemNotFound"])
         ELSE Set(c, [rec EXCEPT !.item = item, !.pc = "it_project"])

\* Variant: the success flag of importFiles is not looked at.
IF_RelistUnchecked(c) ==
    /\ calls[c].pc = "if_imported"
    /\ LET after == GetItems(calls[c].folder)
           found == Locate(after, calls[c].beforeIds, calls[c].beforeLen, calls[c].path)
       IN FileImported(c, [calls[c] EXCEPT !.after = after, !.how = found.how,
                                           !.found = found.item],
                       found.item)
    /\ UNCHANGED <<hostVars, items, started>>

\* Variant: a rejected import is requested again.
IF_RelistRetry(c) ==
    /\ calls[c].pc = "if_imported"
    /\ IF ~calls[c].success
       THEN Set(c, [calls[c] EXCEPT !.pc = "if_import"])
       ELSE LET after == GetItems(calls[c].folder)
                found == Locate(after, calls[c].beforeIds, calls[c].beforeLen, calls[c].path)
            IN FileImported(c, [calls[c] EXCEPT !.after = after, !.how = found.how,
                                                !.found = found.item],
                            found.item)
    /\ UNCHANGED <<hostVars, items, started>>

IF_Relist(c) ==
    /\ calls[c].pc = "if_imported"
    /\ IF ~calls[c].success
       THEN Throw(c, "ImportRejected")
       ELSE LET after == GetItems(calls[c].folder)
                found == Locate(after, calls[c].beforeIds, calls[c].beforeLen, calls[c].path)
            IN FileImported(c, [calls[c] EXCEPT !.after = after, !.how = found.how,
                                                !.found = found.item],
                            found.item)
    /\ UNCHANGED <<hostVars, items, started>>

-----------------------------------------------------------------------------
(* insertIntoTimeline and importAndInsert *)

ClipIds == {i \in 1..Len(items) : ~items[i].bin}

\* The handles a caller can pass to insertIntoTimeline.
HandleArgs == IF ClipIds = {} THEN {NULL} ELSE ClipIds

Min(a, b) == IF a <= b THEN a ELSE b
Max(a, b) == IF a >= b THEN a ELSE b

\* Variant: clamped to the track count, not to the last index.
SafeTrackIndexToCount(audioTrackIndex, count) == Min(audioTrackIndex, Max(count, 0))

\* Math.min(audioTrackIndex, Math.max(trackCount - 1, 0))
SafeTrackIndex(audioTrackIndex, count) == Min(audioTrackIndex, Max(count - 1, 0))

\* The earlier draft of the class: audioTracks[Math.min(audioTrackIndex, audioTracks.length - 1)]
DraftTargetTrack(audioTrackIndex, count) == Min(audioTrackIndex, count - 1)

StartInsertIntoTimeline(c, item, track) ==
    Begin(c, "insertIntoTimeline", "it_project", <<>>, track, item)

StartImportAndInsert(c, path, track) ==
    Begin(c, "importAndInsert", "if_project", path, track, NULL)

\* The earlier draft of insertIntoTimeline (lines 56-77): project.getActiveSequence()
\* on a null project is a TypeError; the sequence is required before the playhead
\* and the tracks are read; a sequence without audio tracks is an error.
DraftInsertIntoTimeline(open, active, count, audioTrackIndex) ==
    IF ~open THEN [err |-> "HostException", track |-> NULL]
    ELSE IF ~active THEN [err |-> "NoActiveSequence", track |-> NULL]
    ELSE IF count = 0 THEN [err |-> "NoAudioTracks", track |-> NULL]
    ELSE [err |-> "none", track |-> DraftTargetTrack(audioTrackIndex, count)]

\* Variant: the sequence is not required.
IT_ReadSequenceUnchecked(c) ==
    /\ calls[c].pc = "it_project"
    /\ IF ~projectOpen
       THEN Throw(c, "NoActiveProject")
       ELSE Set(c, [calls[c] EXCEPT !.safeTrack = SafeTrackIndex(calls[c].track, trackCount),
                                    !.pc = "it_position"])
    /\ UNCHANGED <<hostVars, items, started>>

\* getActiveProject, getActiveSequence, getAudioTrackCount and the clamp
IT_ReadSequence(c) ==
    /\ calls[c].pc = "it_project"
    /\ IF ~projectOpen
       THEN Throw(c, "NoActiveProject")
       ELSE IF ~sequenceActive
       THEN Throw(c, "NoActiveSequence")
       ELSE Set(c, [calls[c] EXCEPT !.safeTrack = SafeTrackIndex(calls[c].track, trackCount),
                                    !.pc = "it_position"])
    /\ UNCHANGED <<hostVars, items, started>>

\* The host applies an insert edit only on an existing audio track, and may
\* report any edit as failed (executeTransaction returns false).
InsertOutcomes(edit) ==
    IF edit.track \in 0..(trackCount - 1) /\ edit.item # NULL THEN BOOLEAN ELSE {FALSE}

\* An edit the host did not apply is either reported (false is returned) or
\* raised as an exception.
InsertThrows(ok) == IF ok THEN {FALSE} ELSE BOOLEAN

\* Variant: the clip goes to the start of the sequence, not to the playhead.
IT_InsertAtStart(c) ==
    /\ calls[c].pc = "it_position"
    /\ LET edit == [item |-> calls[c].item, pos |-> 0, track |-> calls[c].safeTrack]
       IN \E ok \in InsertOutcomes(edit) : \E threw \in InsertThrows(ok) :
             /\ timeline' = IF ok THEN Append(timeline, edit) ELSE timeline
             /\ LET rec == [calls[c] EXCEPT !.edits = Append(@, [edit |-> edit, ok |-> ok])]
                IN IF threw
                   THEN Set(c, [rec EXCEPT !.threw = "insert", !.pc = "done",
                                           !.err = "HostException"])
                   ELSE IF rec.op = "importAndInsert"
                   THEN Return(c, rec, rec.item)
                   ELSE Return(c, rec, NULL)
    /\ UNCHANGED <<projectOpen, sequenceActive, trackCount, playhead, audioTrack, packaging,
                   items, started>>

\* getPlayerPosition, then createInsertProjectItemAction and executeTransaction;
\* the value executeTransaction returns is not looked at, and an exception of
\* the host leaves the call as it is.
IT_InsertAtPlayhead(c) ==
    /\ calls[c].pc = "it_position"
    /\ LET edit == [item |-> calls[c].item, pos |-> playhead, track |-> calls[c].safeTrack]
       IN \E ok \in InsertOutcomes(edit) : \E threw \in InsertThrows(ok) :
             /\ timeline' = IF ok THEN Append(timeline, edit) ELSE timeline
             /\ LET rec == [calls[c] EXCEPT !.edits = Append(@, [edit |-> edit, ok |-> ok])]
                IN IF threw
                   THEN Set(c, [rec EXCEPT !.threw = "insert", !.pc = "done",
                                           !.err = "HostException"])
                   ELSE IF rec.op = "importAndInsert"
                   THEN Return(c, rec, rec.item)
                   ELSE Return(c, rec, NULL)
    /\ UNCHANGED <<projectOpen, sequenceActive, trackCount, playhead, audioTrack, packaging,
                   items, started>>

-----------------------------------------------------------------------------
(* The ExtendScript host script (CEP packaging) *)

\* The loop of _getOrCreateVoiceoverBin: the first root child named "Voiceovers"
\* of type 2 (bin).
ES_FindVoiceoverBin(its) ==
    LET Hit == {i \in 1..Len(its) : its[i].name = VOICEOVERS /\ its[i].bin}
    IN FirstSuch(ItemsOf(its, ROOT), Hit)

\* _getOrCreateVoiceoverBin(): rootItem.createBin may fail and return nothing.
ES_GetOrCreateVoiceoverBin(its, okBin) ==
    IF ~projectOpen THEN [items |-> its, bin |-> NULL, binTx |-> "none"]
    ELSE IF ES_FindVoiceoverBin(its) # NULL
    THEN [items |-> its, bin |-> ES_FindVoiceoverBin(its), binTx |-> "none"]
    ELSE IF okBin
    THEN [items |-> Append(its, NewItem(VOICEOVERS, TRUE, ROOT, TRUE)),
          bin |-> Len(its) + 1, binTx |-> "ok"]
    ELSE [items |-> its, bin |-> NULL, binTx |-> "refused"]

\* voiceoverBin.children[voiceoverBin.children.numItems - 1]
ES_LastChild(its, bin) ==
    LET kids == ItemsOf(its, bin)
    IN IF kids = <<>> THEN NULL ELSE kids[Len(kids)]

\* importFile(filePath) of the host script, on item list `its`, with the host's
\* answers okBin (createBin) and out (importFiles).
ES_RunImportFile(its, path, okBin, out) ==
    LET got == ES_GetOrCreateVoiceoverBin(its, okBin)
        base == [items |-> its, err |-> "none", item |-> NULL, bin |-> NULL,
                 binTx |-> "none", nImport |-> 0, added |-> FALSE, success |-> FALSE,
                 threw |-> "none"]
    IN IF ~projectOpen
       THEN [base EXCEPT !.err = "NoActiveProject"]
       ELSE IF got.bin = NULL
       THEN [base EXCEPT !.items = got.items, !.binTx = got.binTx, !.err = "BinNotCreated"]
       ELSE LET its2 == IF out.add
                        THEN Append(got.items, NewItem(out.name, FALSE, got.bin, out.idOk))
                        ELSE got.items
                sent == [base EXCEPT !.items = its2, !.bin = got.bin, !.binTx = got.binTx,
                                     !.nImport = 1, !.added = out.add,
                                     !.success = out.success]
            IN IF out.threw      \* catch (e): "Import error: " + e
               THEN [sent EXCEPT !.err = "ImportRejected", !.threw = "import"]
               ELSE IF ~out.success
               THEN [sent EXCEPT !.err = "ImportRejected"]
               ELSE IF ES_LastChild(its2, got.bin) = NULL
               THEN [sent EXCEPT !.err = "ImportItemNotFound"]
               ELSE [sent EXCEPT !.item = ES_LastChild(its2, got.bin)]

\* trackIdx = parseInt(audioTrackIndex, 10); if (isNaN(trackIdx) || trackIdx < 0) trackIdx = 0;
\* if (trackIdx >= trackCount) trackIdx = Math.max(trackCount - 1, 0);
ES_TrackIdx(audioTrackIndex, count) ==
    LET idx == IF audioTrackIndex < 0 THEN 0 ELSE audioTrackIndex
    IN IF idx >= count THEN Max(count - 1, 0) ELSE idx

\* The record a finished host-script call leaves in its slot.
ES_Finished(op, path, track, run, edits) ==
    [Idle EXCEPT !.op = op, !.pc = "done", !.path = path, !.track = track,
                 !.bin = run.bin, !.binTx = run.binTx,
                 !.folder = run.bin, !.target = run.bin,
                 !.nImport = run.nImport, !.added = run.added, !.success = run.success,
                 !.imported = IF run.added THEN Len(run.items) ELSE NULL,
                 !.found = run.item, !.item = run.item, !.result = run.item,
                 !.err = run.err, !.edits = edits, !.threw = run.threw]

\* The outcome of a host-script call that stopped before importFile.
ES_NotRun(kind) ==
    [items |-> items, err |-> kind, item |-> NULL, bin |-> NULL,
     binTx |-> "none", nImport |-> 0, added |-> FALSE, success |-> FALSE, threw |-> "none"]

\* The host's answers are drawn only where the script asks: createBin when no
\* bin is found, importFiles when there is a bin to import into.
ES_ImportFile(c, path) ==
    /\ ~InFlight(c)
    /\ \E okBin \in (IF projectOpen /\ ES_FindVoiceoverBin(items) = NULL THEN BOOLEAN ELSE {TRUE}) :
       \E out \in (IF projectOpen /\ (okBin \/ ES_FindVoiceoverBin(items) # NULL)
                   THEN ImportOutcomes(path) ELSE {NotAsked(path)}) :
       \E run \in {ES_RunImportFile(items, path, okBin, out)} :
          /\ items' = run.items
          /\ Set(c, ES_Finished("es_importFile", path, 0, run, <<>>))
    /\ started' = started + 1
    /\ UNCHANGED hostVars

\* The rest of importAndInsert once importFile has returned `run`: the bin is
\* looked up again, its last child inserted at the playhead; what insertClip
\* returns is not looked at, an exception is caught and returned as "Insert error".
ES_InsertImported(c, path, track, run) ==
    IF run.err # "none"
    THEN /\ Set(c, ES_Finished("es_importAndInsert", path, track, run, <<>>))
         /\ UNCHANGED timeline
    ELSE \E edit \in {[item |-> ES_LastChild(run.items, ES_FindVoiceoverBin(run.items)),
                       pos |-> playhead, track |-> ES_TrackIdx(track, trackCount)]} :
         \E ok \in InsertOutcomes(edit) : \E threw \in InsertThrows(ok) :
            /\ timeline' = IF ok THEN Append(timeline, edit) ELSE timeline
            /\ \E rec \in {ES_Finished("es_importAndInsert", path, track, run,
                                        << [edit |-> edit, ok |-> ok] >>)} :
                  IF threw
                  THEN Set(c, [rec EXCEPT !.threw = "insert", !.err = "InsertFailed",
                                          !.result = NULL])
                  ELSE Set(c, rec)

\* importAndInsert(filePath, audioTrackIndex) of the host script: project and
\* sequence are checked first, then importFile runs, then the insertion.
ES_ImportAndInsert(c, path, track) ==
    /\ ~InFlight(c)
    /\ IF ~projectOpen
       THEN /\ Set(c, ES_Finished("es_importAndInsert", path, track,
                                  ES_NotRun("NoActiveProject"), <<>>))
            /\ UNCHANGED <<items, timeline>>
       ELSE IF ~sequenceActive
       THEN /\ Set(c, ES_Finished("es_importAndInsert", path, track,
                                  ES_NotRun("NoActiveSequence"), <<>>))
            /\ UNCHANGED <<items, timeline>>
       ELSE \E okBin \in (IF ES_FindVoiceoverBin(items) = NULL THEN BOOLEAN ELSE {TRUE}) :
            \E out \in (IF okBin THEN ImportOutcomes(path)
                        ELSE {NotAsked(path)}) :
            \E run \in {ES_RunImportFile(items, path, okBin, out)} :
               /\ items' = run.items
               /\ ES_InsertImported(c, path, track, run)
    /\ started' = started + 1
    /\ UNCHANGED <<projectOpen, sequenceActive, trackCount, playhead, audioTrack, packaging>>

-----------------------------------------------------------------------------
(* getAudioTracks and getProjectPath *)

DecimalDigits == <<"1", "2", "3", "4", "5", "6", "7", "8", "9">>

\* `Audio ${i + 1}`
AudioLabel(i) == <<"A", "u", "d", "i", "o", " ">> \o <<DecimalDigits[i + 1]>>

\* The names the host may report for the tracks 0..count-1.
HostTrackNames(count) == [1..count -> TrackNameChoices]

\* Variant: the entries are numbered from 1.
TrackEntryOneBased(i, name) ==
    [index |-> i + 1, name |-> IF name # <<>> THEN name ELSE AudioLabel(i)]

\* { index: i, name: track.name || `Audio ${i + 1}` }
TrackEntry(i, name) ==
    [index |-> i, name |-> IF name # <<>> THEN name ELSE AudioLabel(i)]

\* getAudioTracks: [] without project or sequence and when a host call throws
\* (try/catch), otherwise one entry per track.
AudioTracks(open, active, count, names, threw) ==
    IF threw \/ ~open \/ ~active
    THEN <<>>
    ELSE [k \in 1..count |-> TrackEntry(k - 1, names[k])]

\* The host script's getAudioTracks: the same enumeration, JSON-encoded by the
\* script; "[]" without project or sequence and from its catch block.
ES_AudioTracks(open, active, count, names, threw) ==
    IF threw THEN <<>>
    ELSE IF ~open THEN <<>>
    ELSE IF ~active THEN <<>>
    ELSE [k \in 1..count |-> [index |-> k - 1,
                              name |-> IF names[k] # <<>> THEN names[k]
                                       ELSE <<"A", "u", "d", "i", "o", " ">>
                                               \o <<DecimalDigits[(k - 1) + 1]>>]]

GetAudioTracks(c) ==
    /\ ~InFlight(c)
    /\ \E threw \in BOOLEAN :
       \E names \in (IF projectOpen /\ sequenceActive /\ ~threw
                     THEN HostTrackNames(trackCount) ELSE {<<>>}) :
          Set(c, [Idle EXCEPT !.op = "getAudioTracks", !.pc = "done",
                              !.hostNames = names,
                              !.threw = IF threw THEN "read" ELSE "none",
                              !.tracks = AudioTracks(projectOpen, sequenceActive,
                                                     trackCount, names, threw)])
    /\ started' = started + 1
    /\ UNCHANGED <<hostVars, items>>

ES_GetAudioTracks(c) ==
    /\ ~InFlight(c)
    /\ \E threw \in BOOLEAN :
       \E names \in (IF projectOpen /\ sequenceActive /\ ~threw
                     THEN HostTrackNames(trackCount) ELSE {<<>>}) :
          Set(c, [Idle EXCEPT !.op = "es_getAudioTracks", !.pc = "done",
                              !.hostNames = names,
                              !.threw = IF threw THEN "read" ELSE "none",
                              !.tracks = ES_AudioTracks(projectOpen, sequenceActive,
                                                        trackCount, names, threw)])
    /\ started' = started + 1
    /\ UNCHANGED <<hostVars, items>>

\* str.lastIndexOf(ch), 0-based, -1 when ch does not occur
LastIndexOf(str, ch) ==
    LET hits == {k \in 1..Len(str) : str[k] = ch}
    IN IF hits = {} THEN -1 ELSE (CHOOSE k \in hits : \A j \in hits : j <= k) - 1

\* Variant: >= 0 in place of > 0.
ProjectDirectoryFromZero(open, path, threw) ==
    IF threw \/ ~open \/ path = <<>>
    THEN [absent |-> TRUE, dir |-> <<>>]
    ELSE LET lastSlash == Max(LastIndexOf(path, "/"), LastIndexOf(path, "\\"))
         IN IF lastSlash >= 0
            THEN [absent |-> FALSE, dir |-> SubSeq(path, 1, lastSlash)]
            ELSE [absent |-> TRUE, dir |-> <<>>]

\* getProjectPath: null without project or path and from the catch block;
\* return lastSlash > 0 ? projectPath.substring(0, lastSlash) : null
ProjectDirectory(open, path, threw) ==
    IF threw \/ ~open \/ path = <<>>
    THEN [absent |-> TRUE, dir |-> <<>>]
    ELSE LET lastSlash == Max(LastIndexOf(path, "/"), LastIndexOf(path, "\\"))
         IN IF lastSlash > 0
            THEN [absent |-> FALSE, dir |-> SubSeq(path, 1, lastSlash)]
            ELSE [absent |-> TRUE, dir |-> <<>>]

\* The host script's getProjectPath always returns a string: "" without project
\* or path and from its catch block, otherwise projectPath.replace(/[^\/\\]*$/, ""),
\* the path without its trailing run of non-separator characters.
ES_ProjectDirectory(open, path, threw) ==
    IF threw \/ ~open \/ path = <<>>
    THEN [absent |-> FALSE, dir |-> <<>>]
    ELSE LET seps == {k \in 1..Len(path) : path[k] \in Separators}
             keep == IF seps = {} THEN 0 ELSE CHOOSE k \in seps : \A j \in seps : j <= k
         IN [absent |-> FALSE, dir |-> SubSeq(path, 1, keep)]

GetProjectPath(c) ==
    /\ ~InFlight(c)
    /\ \E threw \in BOOLEAN :
       \E path \in (IF projectOpen /\ ~threw THEN ProjectPaths ELSE {<<>>}) :
       \E got \in {ProjectDirectory(projectOpen, path, threw)} :
          Set(c, [Idle EXCEPT !.op = "getProjectPath", !.pc = "done",
                              !.projPath = path,
                              !.threw = IF threw THEN "read" ELSE "none",
                              !.absent = got.absent, !.dir = got.dir])
    /\ started' = started + 1
    /\ UNCHANGED <<hostVars, items>>

ES_GetProjectPath(c) ==
    /\ ~InFlight(c)
    /\ \E threw \in BOOLEAN :
       \E path \in (IF projectOpen /\ ~threw THEN ProjectPaths ELSE {<<>>}) :
       \E got \in {ES_ProjectDirectory(projectOpen, path, threw)} :
          Set(c, [Idle EXCEPT !.op = "es_getProjectPath", !.pc = "done",
                              !.projPath = path,
                              !.threw = IF threw THEN "read" ELSE "none",
                              !.absent = got.absent, !.dir = got.dir])
    /\ started' = started + 1
    /\ UNCHANGED <<hostVars, items>>

-----------------------------------------------------------------------------
(* The API client: getSubscription, getVoices, validateKey *)

\* Error messages, as the words that message.includes() can find in them.
UNAUTHORIZED_MESSAGE == <<"Unauthorized", "invalid", "API", "key", "(", "401", ")">>

\* The TypeError of a fetch() that got no response.
FETCH_REJECTED == <<"Failed", "to", "fetch">>

\* `${response.status}`
StatusText(status) ==
    CASE status = 200 -> "200"
      [] status = 401 -> "401"
      [] status = 403 -> "403"
      [] status = 429 -> "429"
      [] OTHER -> "500"

Includes(message, word) == \E i \in 1..Len(message) : message[i] = word

\* What the service may answer: an HTTP response, or none at all.
NoResponse == [kind |-> "none", status |-> 0, tier |-> "", count |-> 0]

SubscriptionResponses ==
    {[kind |-> "http", status |-> 200, tier |-> t, count |-> 0] : t \in {"", "pro"}}
    \cup {[kind |-> "http", status |-> st, tier |-> "", count |-> 0] : st \in {401, 403, 429, 500}}
    \cup {[kind |-> "rejected", status |-> 0, tier |-> "", count |-> 0]}

VoicesResponses ==
    {[kind |-> "http", status |-> 200, tier |-> "", count |-> n] : n \in 0..1}
    \cup {[kind |-> "http", status |-> st, tier |-> "", count |-> 0] : st \in {401, 500}}
    \cup {[kind |-> "rejected", status |-> 0, tier |-> "", count |-> 0]}

\* response.ok
ResponseOk(resp) == resp.kind = "http" /\ resp.status \in 200..299

\* getSubscription: the subscription, or the error it throws.
GetSubscription(resp) ==
    IF resp.kind = "rejected" THEN [ok |-> FALSE, tier |-> "", message |-> FETCH_REJECTED]
    ELSE IF ~ResponseOk(resp)
    THEN IF resp.status = 401
         THEN [ok |-> FALSE, tier |-> "", message |-> UNAUTHORIZED_MESSAGE]
         ELSE [ok |-> FALSE, tier |-> "",
               message |-> <<"Failed", "to", "fetch", "subscription", "(",
                             StatusText(resp.status), ")">>]
    ELSE [ok |-> TRUE, tier |-> resp.tier, message |-> <<>>]

\* getVoices: the voices (their number), or the error it throws.
GetVoices(resp) ==
    IF resp.kind = "rejected" THEN [ok |-> FALSE, count |-> 0, message |-> FETCH_REJECTED]
    ELSE IF ~ResponseOk(resp)
    THEN [ok |-> FALSE, count |-> 0,
          message |-> <<"Failed", "to", "fetch", "voices", "(", StatusText(resp.status), ")">>]
    ELSE [ok |-> TRUE, count |-> resp.count, message |-> <<>>]

VkIdle ==
    [pc |-> "idle", requests |-> <<>>, sub |-> NoResponse, voices |-> NoResponse,
     ok |-> FALSE, tier |-> "", voiceCount |-> NULL, message |-> <<>>]

\* Variant: every failure of the subscription request is taken for a permission issue.
IsAuthErrorAlways(message) == TRUE

\* subErr.message.includes('401') || subErr.message.includes('Unauthorized')
IsAuthError(message) == Includes(message, "401") \/ Includes(message, "Unauthorized")

\* The validateKey calls that have run to their end.
Validations == Cardinality({i \in 1..Len(requestLog) : requestLog[i].endpoint = "subscription"})

\* validateKey() up to its first await: the subscription request is sent.
VK_Start ==
    /\ vk.pc \in {"idle", "done"}
    /\ Validations < MaxValidations
    /\ vk' = [VkIdle EXCEPT !.pc = "subscription", !.requests = <<"subscription">>]
    /\ UNCHANGED <<requestLog, outsideApi>>

\* The subscription request is answered: return the tier, or look at the error.
VK_Subscription ==
    /\ vk.pc = "subscription"
    /\ \E resp \in SubscriptionResponses :
       \E got \in {GetSubscription(resp)} :
          /\ requestLog' = Append(requestLog, [endpoint |-> "subscription", status |-> resp.status])
          /\ vk' = IF got.ok
                   THEN [vk EXCEPT !.pc = "done", !.sub = resp, !.ok = TRUE,
                                   !.tier = IF got.tier # "" THEN got.tier
                                            ELSE "ElevenLabs user"]
                   ELSE IF IsAuthError(got.message)
                   THEN [vk EXCEPT !.pc = "voices", !.sub = resp,
                                   !.requests = Append(@, "voices")]
                   ELSE [vk EXCEPT !.pc = "done", !.sub = resp, !.message = got.message]
    /\ UNCHANGED outsideApi

\* The voices request is answered: the key is valid, or truly invalid.
VK_Voices ==
    /\ vk.pc = "voices"
    /\ \E resp \in VoicesResponses :
       \E got \in {GetVoices(resp)} :
          /\ requestLog' = Append(requestLog, [endpoint |-> "voices", status |-> resp.status])
          /\ vk' = IF got.ok
                   THEN [vk EXCEPT !.pc = "done", !.voices = resp, !.ok = TRUE,
                                   !.tier = "ElevenLabs user", !.voiceCount = got.count]
                   ELSE [vk EXCEPT !.pc = "done", !.voices = resp,
                                   !.message = UNAUTHORIZED_MESSAGE]
    /\ UNCHANGED outsideApi

ApiAtRest == vk = VkIdle /\ requestLog = <<>>

-----------------------------------------------------------------------------
(* The generation history of the panel *)

HISTORY_LIMIT == 20
PREVIEW_LIMIT == 60

\* The script text that is added in the history's own specification: longer
\* than the preview.
LongText == [i \in 1..(PREVIEW_LIMIT + 1) |-> "x"]

\* text.length > 60 ? text.slice(0, 60) + '…' : text
Preview(text) ==
    IF Len(text) > PREVIEW_LIMIT
    THEN SubSeq(text, 1, PREVIEW_LIMIT) \o <<"...">>     \* the one-character ellipsis
    ELSE text

\* JSON.stringify(history) and JSON.parse: an entry is stored as the list of
\* its four strings.
Stringify(h) == [i \in 1..Len(h) |-> <<h[i].text, h[i].voice, h[i].path, h[i].time>>]
Parse(json) ==
    [i \in 1..Len(json) |-> [text |-> json[i][1], voice |-> json[i][2],
                             path |-> json[i][3], time |-> json[i][4]]]

NotStored == [present |-> FALSE, json |-> <<>>]

\* Variant: the newest entry is the one dropped.
DropNewest(grown) ==
    IF Len(grown) > HISTORY_LIMIT THEN Tail(grown) ELSE grown

\* if (history.length > 20) history.pop()
DropOldest(grown) ==
    IF Len(grown) > HISTORY_LIMIT THEN SubSeq(grown, 1, Len(grown) - 1) ELSE grown

\* addToHistory(text, voiceName, filePath); the time of day is the number of
\* the addition. localStorage.setItem may throw, which is ignored.
AddToHistory(text, voiceName, filePath) ==
    /\ \E kept \in {DropOldest(<< [text |-> Preview(text), voice |-> voiceName,
                                  path |-> filePath, time |-> adds + 1] >> \o history)} :
          /\ history' = kept
          /\ \E saved \in BOOLEAN :
                storedHistory' = IF saved THEN [present |-> TRUE, json |-> Stringify(kept)]
                                 ELSE storedHistory
    /\ adds' = adds + 1
    /\ UNCHANGED restores

\* The history part of restoreSettings.
RestoreHistory ==
    /\ history' = IF storedHistory.present THEN Parse(storedHistory.json) ELSE history
    /\ restores' = restores + 1
    /\ UNCHANGED <<storedHistory, adds>>

HistoryAtRest ==
    /\ history = <<>> /\ storedHistory = NotStored /\ adds = 0 /\ restores = 0

-----------------------------------------------------------------------------
(* The panel: setup screen, main screen, voices *)

KEY_MIN_LENGTH == 10

\* str.trim()
Trim(str) ==
    LET RECURSIVE TrimLeft(_)
        TrimLeft(t) == IF t # <<>> /\ Head(t) = " " THEN TrimLeft(Tail(t)) ELSE t
        RECURSIVE TrimRight(_)
        TrimRight(t) ==
            IF t # <<>> /\ t[Len(t)] = " " THEN TrimRight(SubSeq(t, 1, Len(t) - 1)) ELSE t
    IN TrimRight(TrimLeft(str))

\* What the user may have typed into the key field: nothing, nine characters
\* after a blank, a key of ten characters, another one after a blank.
SetupInputs ==
    { <<>>,
      <<" ">> \o [i \in 1..9 |-> "a"],
      [i \in 1..10 |-> "a"],
      <<" ">> \o [i \in 1..10 |-> "b"] }

\* The keys a Connect click can send.
Keys == {Trim(v) : v \in {w \in SetupInputs : Len(Trim(w)) >= KEY_MIN_LENGTH}}

\* The voices the service may return, and the option the dropdown then shows
\* first.
VoiceLists == { <<>>, <<"v", "w">> }

\* The pending requests without the one that settles.
Without(pending, i) == SubSeq(pending, 1, i - 1) \o SubSeq(pending, i + 1, Len(pending))

\* Variant: the in-flight flag is not looked at.
UpdateGenerateButtonNoFlag(voice, text, generating) ==
    ~(voice # "" /\ Len(Trim(text)) > 0)

\* updateGenerateButton(): the value generateBtn.disabled gets
UpdateGenerateButton(voice, text, generating) ==
    ~(voice # "" /\ Len(Trim(text)) > 0) \/ generating

\* setupApiKey 'input': connectBtn.disabled = key.length < 10
SetupKeyInput ==
    /\ currentScreen = "setup"
    /\ \E value \in SetupInputs :
          /\ setupApiKey' = value
          /\ connectDisabled' = (Len(Trim(value)) < KEY_MIN_LENGTH)
    /\ UNCHANGED <<currentScreen, storedKey, apiKey, voicesCache, connecting, timers, inits,
                   loads, validated, lastValidation, disconnected, voiceVars, outsideSession>>

\* connectBtn 'click' up to await elevenLabsAPI.getSubscription()
ConnectClick ==
    /\ currentScreen = "setup"
    /\ ~connectDisabled
    /\ Len(connecting) + timers < MaxPending
    /\ disconnected' = FALSE
    /\ \E key \in {Trim(setupApiKey)} :
          IF Len(key) < KEY_MIN_LENGTH
          THEN UNCHANGED <<connectDisabled, apiKey, connecting>>
          ELSE /\ connectDisabled' = TRUE
               /\ apiKey' = key
               /\ connecting' = Append(connecting, key)
    /\ UNCHANGED <<currentScreen, storedKey, setupApiKey, voicesCache, timers, inits, loads,
                   validated, lastValidation, voiceVars, outsideSession>>

\* Variant: the key is saved whatever the service answered.
KeyToStoreAlways(key, ok, stored) == key

\* saveToStorage(STORAGE_KEYS.API_KEY, key) is reached only past the await
KeyToStore(key, ok, stored) == IF ok THEN key ELSE stored

\* The service answers a Connect click's getSubscription: the rest of the handler.
ConnectValidated ==
    \E i \in 1..Len(connecting) : \E key \in {connecting[i]} : \E ok \in BOOLEAN :
        /\ connecting' = Without(connecting, i)
        /\ storedKey' = KeyToStore(key, ok, storedKey)
        /\ timers' = IF ok THEN timers + 1 ELSE timers
        /\ validated' = IF ok THEN validated \cup {key} ELSE validated
        /\ lastValidation' = [by |-> "connect", key |-> key, ok |-> ok]
        /\ connectDisabled' = (Len(Trim(setupApiKey)) < KEY_MIN_LENGTH)       \* finally
        /\ UNCHANGED <<currentScreen, apiKey, setupApiKey, voicesCache, inits, loads,
                       disconnected, voiceVars, outsideSession>>

\* loadVoices() up to await elevenLabsAPI.getVoices(): the dropdown shows
\* "Loading voices...", whose value is ''.
LoadVoicesStart ==
    /\ loads' = loads + 1
    /\ voiceValue' = ""
    /\ UNCHANGED <<storedVoice, scriptText, generateDisabled>>

\* The 600 ms timer of a successful Connect: switchScreen('main'), initMainScreen()
SwitchTimerFires ==
    /\ timers > 0
    /\ loads < MaxPending
    /\ timers' = timers - 1
    /\ currentScreen' = "main"
    /\ LoadVoicesStart
    /\ UNCHANGED <<storedKey, apiKey, setupApiKey, connectDisabled, voicesCache, connecting,
                   inits, validated, lastValidation, disconnected, outsideSession>>

\* refreshVoicesBtn 'click'
RefreshVoicesClick ==
    /\ currentScreen = "main"
    /\ loads < MaxPending
    /\ LoadVoicesStart
    /\ UNCHANGED <<currentScreen, storedKey, apiKey, setupApiKey, connectDisabled, voicesCache,
                   connecting, timers, inits, validated, lastValidation, disconnected,
                   outsideSession>>

\* getVoices settles: the rest of loadVoices. Once the options are built the
\* dropdown's value is the first option, or the last-used voice when it is
\* among them.
LoadVoicesSettled ==
    /\ loads > 0
    /\ loads' = loads - 1
    /\ \E ok \in BOOLEAN : \E voices \in (IF ok THEN VoiceLists ELSE {<<>>}) :
          IF ~ok
          THEN /\ voiceValue' = ""                 \* "Failed to load voices"
               /\ UNCHANGED <<voicesCache, generateDisabled>>
          ELSE /\ voicesCache' = voices
               /\ IF voices = <<>>
                  THEN /\ voiceValue' = ""         \* "No voices available"
                       /\ UNCHANGED generateDisabled
                  ELSE \E selected \in {IF \E i \in 1..Len(voices) : voices[i] = storedVoice
                                          THEN storedVoice ELSE voices[1]} :
                          /\ voiceValue' = selected
                          /\ generateDisabled' =
                                UpdateGenerateButton(selected, scriptText, isGenerating)
    /\ UNCHANGED <<currentScreen, storedKey, apiKey, setupApiKey, connectDisabled, connecting,
                   timers, inits, validated, lastValidation, disconnected, storedVoice,
                   scriptText, outsideSession>>

\* disconnectBtn 'click'
DisconnectClick ==
    /\ currentScreen = "main"
    /\ storedKey' = <<>>
    /\ apiKey' = <<>>
    /\ voicesCache' = <<>>
    /\ setupApiKey' = <<>>
    /\ connectDisabled' = TRUE
    /\ currentScreen' = "setup"
    /\ disconnected' = TRUE
    /\ UNCHANGED <<connecting, timers, inits, loads, validated, lastValidation, voiceVars,
                   outsideSession>>

\* The panel's show() hook: init() up to await elevenLabsAPI.getSubscription()
Show ==
    /\ Len(inits) < MaxPending
    /\ IF Len(storedKey) >= KEY_MIN_LENGTH
       THEN /\ apiKey' = storedKey
            /\ inits' = Append(inits, storedKey)
            /\ UNCHANGED currentScreen
       ELSE /\ currentScreen' = "setup"
            /\ UNCHANGED <<apiKey, inits>>
    /\ UNCHANGED <<storedKey, setupApiKey, connectDisabled, voicesCache, connecting, timers,
                   loads, validated, lastValidation, disconnected, voiceVars, outsideSession>>

\* The service answers init()'s getSubscription: main screen and
\* initMainScreen(), or the key is removed and the setup screen shown.
InitValidated ==
    \E i \in 1..Len(inits) : \E key \in {inits[i]} : \E ok \in BOOLEAN :
        /\ ok => loads < MaxPending
        /\ inits' = Without(inits, i)
        /\ lastValidation' = [by |-> "init", key |-> key, ok |-> ok]
        /\ IF ok
           THEN /\ currentScreen' = "main"
                /\ validated' = validated \cup {key}
                /\ LoadVoicesStart
                /\ UNCHANGED storedKey
           ELSE /\ storedKey' = <<>>
                /\ currentScreen' = "setup"
                /\ UNCHANGED <<validated, loads, voiceVars>>
        /\ UNCHANGED <<apiKey, setupApiKey, connectDisabled, voicesCache, connecting, timers,
                       disconnected, outsideSession>>

\* The panel as its script leaves it, before show() runs.
SessionAtRest ==
    /\ currentScreen = "setup" /\ apiKey = <<>> /\ setupApiKey = <<>>
    /\ connectDisabled = TRUE /\ voicesCache = <<>>
    /\ connecting = <<>> /\ timers = 0 /\ inits = <<>> /\ loads = 0
    /\ validated = {} /\ lastValidation = [by |-> "none", key |-> <<>>, ok |-> FALSE] /\ disconnected = FALSE

-----------------------------------------------------------------------------
(* The panel: generating a voiceover *)

FILE_NAME == "VO.mp3"
NO_SAVE_LOCATION == "No save location available"

\* voDir = `${projectPath}/Voiceovers`, savePath = `${voDir}/${fileName}`
SavePath(projectPath) == projectPath \o <<"/", "Voiceovers">> \o <<"/", FILE_NAME>>

\* file.nativePath of the file the user picked in the save dialog
PickedPath == <<"u", "/", FILE_NAME>>

\* The handler at rest; result, absent, picked and inserted keep what the last
\* run did.
GenIdle ==
    [pc |-> "idle", text |-> <<>>, voiceName |-> "", dir |-> <<>>, savePath |-> <<>>,
     result |-> "none", absent |-> FALSE, picked |-> FALSE, inserted |-> FALSE]

\* scriptText 'input': the field is now empty, blank, or holds a text
ScriptInput ==
    /\ currentScreen = "main"
    /\ \E text \in { <<>>, <<" ">>, <<"t">> } :
          /\ scriptText' = text
          /\ generateDisabled' = UpdateGenerateButton(voiceValue, text, isGenerating)
    /\ UNCHANGED <<voiceValue, storedVoice, genVars, historyVars, outsideGenerate>>

\* voiceSelect 'change': the user picks another of the loaded voices
VoiceChange ==
    /\ currentScreen = "main"
    /\ voiceValue # ""
    /\ \E v \in {voicesCache[i] : i \in 1..Len(voicesCache)} \ {voiceValue} :
          /\ voiceValue' = v
          /\ storedVoice' = v
          /\ generateDisabled' = UpdateGenerateButton(v, scriptText, isGenerating)
    /\ UNCHANGED <<scriptText, genVars, historyVars, outsideGenerate>>

\* autoInsert 'change'
AutoInsertChange ==
    /\ currentScreen = "main"
    /\ autoInsert' = ~autoInsert
    /\ UNCHANGED <<isGenerating, lastAudioPath, previewVisible, gen, inserting, generated,
                   voiceVars, historyVars, outsideGenerate>>

\* generateBtn 'click' up to await elevenLabsAPI.generateSpeech
GenerateClick ==
    /\ currentScreen = "main"
    /\ ~generateDisabled
    /\ isGenerating \/ generated < MaxGenerates
    /\ IF Trim(scriptText) = <<>> \/ voiceValue = "" \/ isGenerating
       THEN UNCHANGED <<isGenerating, generateDisabled, previewVisible, gen, generated>>
       ELSE /\ isGenerating' = TRUE
            /\ generateDisabled' = TRUE
            /\ previewVisible' = FALSE
            /\ gen' = [GenIdle EXCEPT !.pc = "speech", !.text = Trim(scriptText)]
            /\ generated' = generated + 1
    /\ UNCHANGED <<autoInsert, lastAudioPath, inserting, voiceValue, storedVoice, scriptText,
                   historyVars, outsideGenerate>>

\* The handler moves on to its next await.
GenStep(rec) ==
    /\ gen' = rec
    /\ UNCHANGED <<isGenerating, autoInsert, lastAudioPath, previewVisible, inserting,
                   generated, voiceVars, historyVars, outsideGenerate>>

\* catch and finally of the handler: an await rejected, or no save location
GenFailed(rec, why) ==
    /\ gen' = [rec EXCEPT !.pc = "idle", !.result = why]
    /\ isGenerating' = FALSE
    /\ generateDisabled' = UpdateGenerateButton(voiceValue, scriptText, FALSE)
    /\ UNCHANGED <<autoInsert, lastAudioPath, previewVisible, inserting, generated,
                   voiceValue, storedVoice, scriptText, historyVars, outsideGenerate>>

\* Lines 503-507 and the finally: preview shown, history entry added
GenSucceeded(rec) ==
    /\ gen' = [rec EXCEPT !.pc = "idle", !.result = "ok"]
    /\ previewVisible' = TRUE
    /\ AddToHistory(rec.text, rec.voiceName, rec.savePath)
    /\ isGenerating' = FALSE
    /\ generateDisabled' = UpdateGenerateButton(voiceValue, scriptText, FALSE)
    /\ UNCHANGED <<autoInsert, inserting, generated, voiceValue, storedVoice, scriptText,
                   outsideGenerate>>

\* generateSpeech settles; voiceName is read from the dropdown as it is now
GenSpeech ==
    /\ gen.pc = "speech"
    /\ \E ok \in BOOLEAN :
          IF ok
          THEN GenStep([gen EXCEPT !.pc = "projectPath",
                                   !.voiceName = IF voiceValue = "" THEN "voice" ELSE voiceValue])
          ELSE GenFailed(gen, "speech")

\* premiereBridge.getProjectPath() settles (it never rejects), project.path
\* being empty, a bare file name, or a file in a directory;
\* if (projectPath) { ... } has no else: savePath stays null and line 484 throws
GenProjectPath ==
    /\ gen.pc = "projectPath"
    /\ \E path \in { <<>>, <<"p">>, <<"d", "/", "p">> } : \E threw \in BOOLEAN :
          \E r \in {ProjectDirectory(projectOpen, path, threw)} :
              IF ~r.absent /\ r.dir # <<>>
              THEN GenStep([gen EXCEPT !.pc = "voDir", !.dir = r.dir])
              ELSE GenFailed([gen EXCEPT !.absent = TRUE], NO_SAVE_LOCATION)

\* fs.getEntryForUrl(voDir) settles
GenVoDir ==
    /\ gen.pc = "voDir"
    /\ \E exists \in BOOLEAN :
          IF exists
          THEN GenStep([gen EXCEPT !.pc = "fileEntry",
                                   !.savePath = SavePath(gen.dir)])
          ELSE GenStep([gen EXCEPT !.pc = "projectFolder"])

\* fs.getEntryForUrl(projectPath) settles
GenProjectFolder ==
    /\ gen.pc = "projectFolder"
    /\ \E ok \in BOOLEAN :
          GenStep([gen EXCEPT !.pc = IF ok THEN "createFolder" ELSE "fileForSaving"])

\* projectFolder.createFolder('Voiceovers') settles
GenCreateFolder ==
    /\ gen.pc = "createFolder"
    /\ \E ok \in BOOLEAN :
          IF ok
          THEN GenStep([gen EXCEPT !.pc = "fileEntry",
                                   !.savePath = SavePath(gen.dir)])
          ELSE GenStep([gen EXCEPT !.pc = "fileForSaving"])

\* fs.getFileForSaving settles: a file, null (dialog cancelled), or a rejection
GenFileForSaving ==
    /\ gen.pc = "fileForSaving"
    /\ \E outcome \in {"file", "null", "rejected"} :
          IF outcome = "file"
          THEN GenStep([gen EXCEPT !.pc = "fileEntry", !.savePath = PickedPath,
                                   !.picked = TRUE])
          ELSE GenFailed(gen, NO_SAVE_LOCATION)

\* fs.getEntryForUrl(savePath) settles
GenFileEntry ==
    /\ gen.pc = "fileEntry"
    /\ \E ok \in BOOLEAN :
          IF ok THEN GenStep([gen EXCEPT !.pc = "write"]) ELSE GenFailed(gen, "fileEntry")

\* fileEntry.write settles; then import into the timeline if autoInsert.checked
GenWrite ==
    /\ gen.pc = "write"
    /\ \E ok \in BOOLEAN :
          IF ~ok
          THEN GenFailed(gen, "write")
          ELSE IF autoInsert
               THEN /\ gen' = [gen EXCEPT !.pc = "insert"]
                    /\ lastAudioPath' = gen.savePath
                    /\ UNCHANGED <<isGenerating, autoInsert, previewVisible, inserting,
                                   generated, voiceVars, historyVars, outsideGenerate>>
               ELSE /\ GenSucceeded(gen)
                    /\ lastAudioPath' = gen.savePath

\* Variant: the history entry is added whatever importAndInsert did.
InsertAwaitedIgnored(ok) == TRUE

\* await premiereBridge.importAndInsert: a rejection skips the rest of the try
InsertAwaited(ok) == ok

\* The handler's importAndInsert settles
GenInsert ==
    /\ gen.pc = "insert"
    /\ \E ok \in BOOLEAN :
          IF InsertAwaited(ok)
          THEN GenSucceeded([gen EXCEPT !.inserted = ok]) /\ UNCHANGED lastAudioPath
          ELSE GenFailed([gen EXCEPT !.inserted = ok], "insert")

\* insertBtn 'click' up to await premiereBridge.importAndInsert
InsertClick ==
    /\ currentScreen = "main"
    /\ previewVisible
    /\ inserting < MaxInserts
    /\ inserting' = IF lastAudioPath = <<>> THEN inserting ELSE inserting + 1
    /\ UNCHANGED <<isGenerating, autoInsert, lastAudioPath, previewVisible, gen, generated,
                   voiceVars, historyVars, outsideGenerate>>

\* A history item's 'click' up to await premiereBridge.importAndInsert
HistoryItemClick ==
    /\ currentScreen = "main"
    /\ inserting < MaxInserts
    /\ \E idx \in 1..Len(history) :
          inserting' = IF history[idx].path = <<>> THEN inserting ELSE inserting + 1
    /\ UNCHANGED <<isGenerating, autoInsert, lastAudioPath, previewVisible, gen, generated,
                   voiceVars, historyVars, outsideGenerate>>

\* An importAndInsert of insertBtn or of a history item settles: status text only
InsertSettled ==
    /\ inserting > 0
    /\ inserting' = inserting - 1
    /\ UNCHANGED <<isGenerating, autoInsert, lastAudioPath, previewVisible, gen, generated,
                   voiceVars, historyVars, outsideGenerate>>

\* The main screen's elements and state as the script leaves them.
MainScreenAtRest ==
    /\ voiceValue = "" /\ storedVoice = "" /\ scriptText = <<>> /\ generateDisabled = TRUE
    /\ isGenerating = FALSE /\ autoInsert = FALSE /\ lastAudioPath = <<>>
    /\ previewVisible = FALSE /\ gen = GenIdle /\ inserting = 0 /\ generated = 0

-----------------------------------------------------------------------------
(* Specifications *)

\* The projects a call may find: empty; a clip that happens to be called
\* Voiceovers; a Voiceovers bin holding an earlier voiceover whose getId throws.
InitialProjects ==
    { <<>>,
      << [name |-> VOICEOVERS, bin |-> FALSE, parent |-> ROOT, idOk |-> TRUE] >>,
      << [name |-> VOICEOVERS, bin |-> TRUE, parent |-> ROOT, idOk |-> TRUE],
         [name |-> <<"a">>, bin |-> FALSE, parent |-> 1, idOk |-> FALSE] >> }

Init ==
    /\ projectOpen \in BOOLEAN
    /\ sequenceActive \in (IF projectOpen THEN BOOLEAN ELSE {FALSE})
    /\ trackCount \in (IF sequenceActive THEN 0..MaxTracks ELSE {0})
    /\ playhead \in (IF sequenceActive THEN 1..MaxTime ELSE {0})
    /\ audioTrack \in (IF sequenceActive THEN TrackArgs ELSE {0})
    /\ packaging \in {"uxp", "cep"}
    /\ items \in (IF projectOpen THEN InitialProjects ELSE {<<>>})
    /\ timeline = <<>>
    /\ calls = [c \in Calls |-> Idle]
    /\ started = 0
    /\ ApiAtRest
    /\ HistoryAtRest
    /\ SessionAtRest /\ storedKey = <<>>
    /\ MainScreenAtRest

Step(c) ==
    \/ GB_FindExisting(c)
    \/ GB_CreateBin(c)
    \/ GB_Requery(c)
    \/ IF_GetActiveProject(c)
    \/ IF_Snapshot(c)
    \/ IF_ImportFiles(c)
    \/ IF_Relist(c)
    \/ IT_ReadSequence(c)
    \/ IT_InsertAtPlayhead(c)

StartCall(c) ==
    \/ StartGetOrCreateVoiceoverBin(c)
    \/ \E path \in Paths : StartImportFile(c, path)
    \/ \E item \in HandleArgs : StartInsertIntoTimeline(c, item, audioTrack)
    \/ \E path \in Paths : StartImportAndInsert(c, path, audioTrack)

\* The calls of the bridge that only read the host.
ReadCall(c) ==
    \/ GetAudioTracks(c)
    \/ GetProjectPath(c)

\* A call of the host script through evalScript.
HostScriptCall(c) ==
    \/ \E path \in Paths : ES_ImportFile(c, path)
    \/ \E path \in Paths : ES_ImportAndInsert(c, path, audioTrack)

\* The bridge is used one call at a time: a call starts when none is in flight.
Next ==
    \/ \E c \in Calls : Step(c)
    \/ /\ started < MaxStarts
       /\ \A d \in Calls : ~InFlight(d)
       /\ packaging = "uxp"
       /\ StartCall("A")
    \/ /\ started < MaxStarts
       /\ packaging = "cep"
       /\ HostScriptCall("A")

Spec == Init /\ [][Next]_vars

\* The calls that only read the host, one after the other: they change nothing
\* that another call looks at.
NextRead ==
    \/ /\ started < MaxStarts
       /\ \A d \in Calls : ~InFlight(d)
       /\ packaging = "uxp"
       /\ ReadCall("A")
    \/ /\ started < MaxStarts
       /\ packaging = "cep"
       /\ ES_GetAudioTracks("A")
    \/ /\ started < MaxStarts
       /\ packaging = "cep"
       /\ ES_GetProjectPath("A")

SpecRead == Init /\ [][NextRead]_vars

\* Two calls that may overlap (a double click): "A" starts first, "B" at any
\* later moment, and each runs once.
InitOverlap ==
    /\ Init
    /\ packaging = "uxp"
    /\ sequenceActive
    /\ trackCount = MaxTracks
    /\ audioTrack >= trackCount

NextOverlap ==
    \/ \E c \in Calls : Step(c)
    \/ calls["A"].pc = "idle" /\ StartCall("A")
    \/ calls["A"].pc # "idle" /\ calls["B"].pc = "idle" /\ StartCall("B")

SpecOverlap == InitOverlap /\ [][NextOverlap]_vars

\* No bridge call is made and the host is not looked at.
BridgeAtRest ==
    /\ projectOpen = FALSE /\ sequenceActive = FALSE /\ trackCount = 0 /\ playhead = 0
    /\ audioTrack = 0 /\ packaging = "uxp" /\ items = <<>> /\ timeline = <<>>
    /\ calls = [c \in Calls |-> Idle] /\ started = 0

\* validateKey called again and again.
PanelAtRest == SessionAtRest /\ storedKey = <<>> /\ MainScreenAtRest

InitValidate == BridgeAtRest /\ HistoryAtRest /\ PanelAtRest /\ ApiAtRest

NextValidate ==
    \/ VK_Start
    \/ VK_Subscription
    \/ VK_Voices

SpecValidate == InitValidate /\ [][NextValidate]_vars

\* Additions to the history and restores, in any order.
InitHistory == BridgeAtRest /\ ApiAtRest /\ PanelAtRest /\ HistoryAtRest

HistoryAdd ==
    /\ adds < MaxAdds
    /\ AddToHistory(LongText, "v", "f")
    /\ UNCHANGED outsideHistory

HistoryRestore ==
    /\ restores < MaxRestores
    /\ RestoreHistory
    /\ UNCHANGED outsideHistory

NextHistory ==
    \/ HistoryAdd
    \/ HistoryRestore

SpecHistory == InitHistory /\ [][NextHistory]_vars


\* The panel's screens: a key may be left in storage by an earlier session.
InitSession ==
    /\ BridgeAtRest /\ ApiAtRest /\ HistoryAtRest
    /\ SessionAtRest /\ MainScreenAtRest
    /\ storedKey \in {<<>>} \cup Keys

NextSession ==
    \/ Show
    \/ InitValidated
    \/ SetupKeyInput
    \/ ConnectClick
    \/ ConnectValidated
    \/ SwitchTimerFires
    \/ RefreshVoicesClick
    \/ LoadVoicesSettled
    \/ DisconnectClick

SpecSession == InitSession /\ [][NextSession]_vars

\* The main screen right after init() found the stored key valid: voices are
\* being loaded; a project may be open in the host; the auto-insert checkbox is
\* as restoreSettings left it.
InitGenerate ==
    /\ packaging = "uxp" /\ projectOpen \in BOOLEAN
    /\ sequenceActive = FALSE /\ trackCount = 0 /\ playhead = 0 /\ audioTrack = 0
    /\ items = <<>> /\ timeline = <<>> /\ started = 0
    /\ calls = [c \in Calls |-> Idle]
    /\ ApiAtRest /\ HistoryAtRest
    /\ currentScreen = "main"
    /\ \E key \in {[i \in 1..KEY_MIN_LENGTH |-> "a"]} :
          /\ storedKey = key /\ apiKey = key /\ validated = {key}
          /\ lastValidation = [by |-> "init", key |-> key, ok |-> TRUE]
    /\ setupApiKey = <<>> /\ connectDisabled = TRUE /\ voicesCache = <<>>
    /\ connecting = <<>> /\ timers = 0 /\ inits = <<>> /\ loads = 1
    /\ disconnected = FALSE
    /\ voiceValue = "" /\ storedVoice = "" /\ scriptText = <<>> /\ generateDisabled = TRUE
    /\ isGenerating = FALSE /\ autoInsert \in BOOLEAN /\ lastAudioPath = <<>>
    /\ previewVisible = FALSE /\ gen = GenIdle /\ inserting = 0 /\ generated = 0

NextGenerate ==
    \/ ScriptInput
    \/ VoiceChange
    \/ AutoInsertChange
    \/ RefreshVoicesClick
    \/ LoadVoicesSettled
    \/ GenerateClick
    \/ GenSpeech
    \/ GenProjectPath
    \/ GenVoDir
    \/ GenProjectFolder
    \/ GenCreateFolder
    \/ GenFileForSaving
    \/ GenFileEntry
    \/ GenWrite
    \/ GenInsert
    \/ InsertClick
    \/ HistoryItemClick
    \/ InsertSettled

SpecGenerate == InitGenerate /\ [][NextGenerate]_vars

-----------------------------------------------------------------------------
(* Properties *)

Done(c) == calls[c].pc = "done"

\* Call c runs importFile, by itself or as the first half of importAndInsert.
Imports(c) == calls[c].op \in {"importFile", "importAndInsert"}

\* Call c is past getOrCreateVoiceoverBin.
BinSettled(c) ==
    /\ Imports(c)
    /\ calls[c].pc \in {"if_before", "if_import", "if_imported", "it_project", "it_position", "done"}
    /\ projectOpen

\* Call c is a call of the host script that got hold of a Voiceovers bin.
HostScriptCalled(c) == calls[c].op \in {"es_importFile", "es_importAndInsert"}

HostScriptBin(c) == HostScriptCalled(c) /\ calls[c].bin # NULL

\* Call c has re-listed the folder after a successful import request.
Relisted(c) == Imports(c) /\ calls[c].nImport = 1 /\ calls[c].success /\ calls[c].how # "none"

\* The root-level folders named "Voiceovers".
VoiceoverBins ==
    {i \in 1..Len(items) :
        items[i].bin /\ items[i].parent = ROOT /\ items[i].name = VOICEOVERS}

ListedAfter(c) == {calls[c].after[k] : k \in 1..Len(calls[c].after)}

\* The identities the re-listing shows that the snapshot did not hold.
NewIdentities(c) ==
    {i \in ListedAfter(c) : items[i].idOk /\ <<i>> \notin calls[c].beforeIds}

\* The base name of each path of the model, written out.
ExpectedBaseName(path) ==
    CASE path = <<"/", "t", "/", "a", ".", "m">> -> <<"a">>
      [] path = <<"t", "\\", "a">> -> <<"a">>

NameMatches(c) ==
    {i \in ListedAfter(c) : items[i].name = ExpectedBaseName(calls[c].path)}

Grown(c) == Len(calls[c].after) >= calls[c].beforeLen + 1

C2_IdempotentUnderOverlap ==
    /\ Cardinality(VoiceoverBins) <= 1
    /\ \A c, d \in Calls :
          BinSettled(c) /\ BinSettled(d) /\ calls[c].bin # NULL /\ calls[d].bin # NULL
             => calls[c].bin = calls[d].bin

\* No heuristic has a candidate for call c although the host reported success.
NoCandidate(c) ==
    Relisted(c) /\ NewIdentities(c) = {} /\ NameMatches(c) = {} /\ ~Grown(c)

\* The import half of importAndInsert has failed in call c.
ImportFailed(c) ==
    \/ ~projectOpen
    \/ calls[c].nImport = 1 /\ ~calls[c].success /\ calls[c].pc # "if_imported"
    \/ NoCandidate(c)

\* importFile of the host script has failed inside its importAndInsert.
HostScriptImportFailed(c) ==
    \/ calls[c].bin = NULL
    \/ calls[c].nImport = 1 /\ ~calls[c].success
    \/ calls[c].nImport = 1 /\ ItemsOf(items, calls[c].bin) = <<>>

\* C3: when importFile fails inside importAndInsert (no project, import rejected,
\* item not located) the call ends in failure and no insert edit is built or run.
C3_NoInsertAfterFailedImport ==
    /\ \A c \in Calls :
        calls[c].op = "importAndInsert" /\ ImportFailed(c)
           => /\ calls[c].edits = <<>>
              /\ calls[c].pc \notin {"it_project", "it_position"}
              /\ Done(c) => calls[c].err # "none"
    /\ \A c \in Calls :
        calls[c].op = "es_importAndInsert" /\ sequenceActive /\ HostScriptImportFailed(c)
           => calls[c].edits = <<>> /\ calls[c].err # "none"

C3_Witness ==
    \E c \in Calls :
        /\ calls[c].op = "importAndInsert" /\ Done(c)
        /\ sequenceActive /\ trackCount >= 1
        /\ calls[c].nImport = 1 /\ ~calls[c].success
        /\ calls[c].err = "ImportRejected"

C5_SingleNewIdentityReturned ==
    \A c \in Calls :
        /\ calls[c].pc = "if_import"
              => /\ calls[c].nImport = 0
                 /\ calls[c].beforeLen = Len(GetItems(calls[c].folder))
                 /\ \A k \in 1..calls[c].beforeLen :
                       LET i == GetItems(calls[c].folder)[k]
                       IN items[i].idOk => <<i>> \in calls[c].beforeIds
        /\ Relisted(c) /\ Cardinality(NewIdentities(c)) = 1
              => /\ calls[c].found \in NewIdentities(c)
                 /\ Done(c) /\ calls[c].op = "importFile" => calls[c].result = calls[c].found

\* The one new item is found by its identity among older items of the folder.
C5_Witness ==
    \E c \in Calls :
        /\ Done(c) /\ calls[c].op = "importFile"
        /\ Cardinality(NewIdentities(c)) = 1
        /\ calls[c].beforeLen >= 1
        /\ calls[c].result \in NewIdentities(c)
        /\ calls[c].result \notin NameMatches(c)

\* C6: when no identity or more than one identity is new in the Voiceovers folder
\* after the import, the result is not taken from the diff but is the item
\* carrying the file's base name.
C6_AmbiguousDiffFallsBackToName ==
    \A c \in Calls :
        Relisted(c) /\ calls[c].target # ROOT /\ Cardinality(NewIdentities(c)) # 1
           => /\ calls[c].how # "diff"
              /\ NameMatches(c) # {} => calls[c].found \in NameMatches(c)

\* C7: the last item of the folder is the result only after the identity diff
\* and the name match have failed, and exactly when the folder has grown.
C7_PositionalFallback ==
    \A c \in Calls :
        Relisted(c)
           => /\ (calls[c].found # NULL
                    /\ calls[c].found \notin NewIdentities(c)
                    /\ calls[c].found \notin NameMatches(c))
                 => /\ NewIdentities(c) = {} /\ NameMatches(c) = {}
                    /\ Grown(c)
                    /\ calls[c].found = calls[c].after[Len(calls[c].after)]
              /\ NewIdentities(c) = {} /\ NameMatches(c) = {}
                 => /\ calls[c].found # NULL <=> Grown(c)
                    /\ Grown(c) => calls[c].found = calls[c].after[Len(calls[c].after)]

\* The new item has no usable id and keeps its extension: it is found as the
\* last item of a folder that held items before.
C7_Witness ==
    \E c \in Calls :
        /\ Relisted(c) /\ calls[c].how = "last"
        /\ calls[c].beforeLen >= 1
        /\ calls[c].found = calls[c].after[Len(calls[c].after)]

\* A folder that did not grow yields no candidate.
C7_WitnessNotGrown ==
    \E c \in Calls :
        /\ Relisted(c) /\ calls[c].after # <<>> /\ calls[c].found = NULL

\* C8: a rejected import ends in ImportRejected with no handle and without the
\* folder being re-listed; with no project open the call ends in NoActiveProject
\* and no import request is issued.
C8_RejectedOrNoProject ==
    /\ \A c \in Calls :
        Imports(c)
           => /\ (calls[c].nImport = 1 /\ ~calls[c].success /\ calls[c].threw = "none")
                 => /\ calls[c].after = <<>> /\ calls[c].how = "none" /\ calls[c].found = NULL
                    /\ calls[c].pc \in {"if_imported", "done"}
                    /\ Done(c) => calls[c].err = "ImportRejected" /\ calls[c].result = NULL
              /\ ~projectOpen
                 => /\ calls[c].nImport = 0
                    /\ calls[c].pc \in {"if_project", "done"}
                    /\ Done(c) => calls[c].err = "NoActiveProject" /\ calls[c].result = NULL
    /\ \A c \in Calls :
        HostScriptCalled(c)
           => /\ (calls[c].nImport = 1 /\ ~calls[c].success)
                 => calls[c].err = "ImportRejected" /\ calls[c].result = NULL
              /\ ~projectOpen
                 => /\ calls[c].nImport = 0
                    /\ calls[c].err = "NoActiveProject" /\ calls[c].result = NULL

C8_Witness ==
    \E c \in Calls :
        /\ Done(c) /\ calls[c].op = "importFile"
        /\ calls[c].nImport = 1 /\ ~calls[c].success
        /\ calls[c].beforeLen >= 1
        /\ calls[c].err = "ImportRejected"

C8_WitnessNoProject ==
    \E c \in Calls :
        Done(c) /\ Imports(c) /\ ~projectOpen /\ calls[c].err = "NoActiveProject"

\* C9 as claimed: every import request targets the Voiceovers folder, and a
\* returned handle is a child of it.
C9_AlwaysIntoVoiceovers ==
    \A c \in Calls :
        Imports(c)
           => /\ calls[c].nImport = 1 => calls[c].target \in VoiceoverBins
              /\ calls[c].found # NULL => items[calls[c].found].parent \in VoiceoverBins

\* C9 as amended: the import request targets the folder getOrCreateVoiceoverBin
\* returned, a root-level Voiceovers folder, or the project root when it returned
\* none; a returned handle is a child of the folder the request targeted.
C9_IntoVoiceoversOrRoot ==
    \A c \in Calls :
        Imports(c) /\ calls[c].nImport = 1
           => /\ calls[c].bin # NULL
                    => calls[c].target = calls[c].bin /\ calls[c].bin \in VoiceoverBins
              /\ calls[c].bin = NULL => calls[c].target = ROOT
              /\ calls[c].found # NULL => items[calls[c].found].parent = calls[c].target
              /\ Done(c) /\ calls[c].result # NULL
                    => items[calls[c].result].parent = calls[c].target

\* The bin could not be created and the file went to the project root, where
\* importFile found it.
C9_Witness ==
    \E c \in Calls :
        /\ Done(c) /\ calls[c].op = "importFile"
        /\ calls[c].binTx = "refused" /\ calls[c].target = ROOT
        /\ calls[c].result # NULL /\ items[calls[c].result].parent = ROOT

\* Call c runs insertIntoTimeline, by itself or as the second half of importAndInsert.
Inserts(c) ==
    \/ calls[c].op = "insertIntoTimeline"
    \/ calls[c].op \in {"importAndInsert", "es_importAndInsert"} /\ calls[c].found # NULL

\* C10: with an active sequence of at least one track, a track index at or
\* beyond the track count gives one insert edit on the last track, and the call
\* does not fail.
C10_ClampToLastTrack ==
    /\ \A c \in Calls :
        Inserts(c) /\ Done(c) /\ sequenceActive /\ trackCount >= 1
                   /\ calls[c].track >= trackCount /\ calls[c].threw = "none"
           => /\ calls[c].err = "none"
              /\ Len(calls[c].edits) = 1
              /\ calls[c].edits[1].edit.track = trackCount - 1
              /\ calls[c].edits[1].edit.item = calls[c].item
              /\ calls[c].edits[1].ok => timeline[Len(timeline)] = calls[c].edits[1].edit
    /\ sequenceActive /\ trackCount >= 1 /\ audioTrack >= trackCount
          => DraftTargetTrack(audioTrack, trackCount) = trackCount - 1

C10_Witness ==
    \E c \in Calls :
        /\ Done(c) /\ calls[c].op = "importAndInsert"
        /\ trackCount = 2 /\ calls[c].track >= trackCount
        /\ calls[c].edits # <<>> /\ calls[c].edits[1].ok
        /\ calls[c].edits[1].edit.track = 1
        /\ timeline # <<>>

\* C11: a negative track index is clamped to track 0: the insert edit handed to
\* the host carries track 0, an index within 0..trackCount-1.
C11_NegativeClampToZero ==
    \A c \in Calls :
        calls[c].edits # <<>> /\ calls[c].track < 0 /\ trackCount >= 1
           => /\ calls[c].edits[1].edit.track = 0
              /\ calls[c].edits[1].edit.track \in 0..(trackCount - 1)

\* The operations of the bridge and of the host script the frame claims speak of.
BridgeOps ==
    {"importFile", "insertIntoTimeline", "importAndInsert", "es_importFile", "es_importAndInsert"}

\* C12: with no project open, importFile, insertIntoTimeline and importAndInsert
\* end in NoActiveProject or NoActiveSequence and the host sees no mutation: no
\* folder is created, no import request issued, no edit transaction executed.
C12_NoProjectNoMutation ==
    ~projectOpen
       => /\ items = <<>> /\ timeline = <<>>
          /\ \A c \in Calls :
                /\ calls[c].binTx = "none" /\ calls[c].nImport = 0 /\ calls[c].edits = <<>>
                /\ calls[c].pc \in {"idle", "if_project", "it_project", "gb_find", "done"}
                /\ Done(c) /\ calls[c].op \in BridgeOps
                      => /\ calls[c].err \in {"NoActiveProject", "NoActiveSequence"}
                         /\ calls[c].result = NULL

C12_Witness ==
    /\ ~projectOpen /\ started = 2
    /\ Done("A") /\ calls["A"].op = "importAndInsert"
    /\ calls["A"].err = "NoActiveProject"

\* C13: an importAndInsert call that ends in failure leaves the project as it
\* found it: the call created no Voiceovers folder and imported no item.
C13_FailedCallLeavesProjectUnchanged ==
    \A c \in Calls :
        Done(c) /\ calls[c].op \in {"importAndInsert", "es_importAndInsert"}
                /\ calls[c].err # "none"
           => /\ calls[c].binTx # "ok"
              /\ ~calls[c].added

\* C14: with a project open and no active sequence, insertIntoTimeline ends in
\* NoActiveSequence without having read the track count or the playhead and
\* without an insert edit built or executed.
C14_SequenceRequired ==
    /\ \A c \in Calls :
        projectOpen /\ ~sequenceActive
                    /\ calls[c].op \in {"insertIntoTimeline", "importAndInsert"}
           => /\ calls[c].pc # "it_position"
              /\ calls[c].edits = <<>>
              /\ calls[c].safeTrack = Idle.safeTrack
              /\ Done(c) /\ (calls[c].op = "insertIntoTimeline" \/ calls[c].item # NULL)
                    => calls[c].err = "NoActiveSequence" /\ calls[c].result = NULL
    /\ projectOpen /\ ~sequenceActive
          => DraftInsertIntoTimeline(projectOpen, sequenceActive, trackCount, audioTrack).err
                = "NoActiveSequence"

\* importAndInsert has imported and located the file and then finds no sequence.
C14_Witness ==
    \E c \in Calls :
        /\ projectOpen /\ ~sequenceActive
        /\ Done(c) /\ calls[c].op = "importAndInsert" /\ calls[c].item # NULL
        /\ calls[c].err = "NoActiveSequence"

\* C15: an insert edit the host reports as failed ends the call in InsertFailed;
\* no call whose edit was reported failed ends in success.
C15_InsertFailurePropagated ==
    \A c \in Calls :
        Done(c) /\ calls[c].edits # <<>> /\ ~calls[c].edits[1].ok /\ calls[c].threw = "none"
           => calls[c].err = "InsertFailed"

\* C16: an exception of a host call never leaves an operation unclassified: it
\* ends the call in ImportRejected when raised during the import and in
\* InsertFailed when raised during the insertion.
C16_HostExceptionsClassified ==
    \A c \in Calls :
        Done(c) /\ calls[c].op \in BridgeOps
           => /\ calls[c].threw = "import" => calls[c].err = "ImportRejected"
              /\ calls[c].threw = "insert" => calls[c].err = "InsertFailed"

\* The import request of call c was issued and did not yield an item.
ImportRequestFailed(c) ==
    /\ calls[c].nImport >= 1
    /\ \/ ~calls[c].success
       \/ calls[c].threw = "import"
       \/ Done(c) /\ calls[c].err = "ImportItemNotFound"

\* At most one import request and one insert edit per call, and no insert edit
\* after an import request that failed.
OneRequestEach(c) ==
    /\ calls[c].nImport <= 1
    /\ Len(calls[c].edits) <= 1
    /\ ImportRequestFailed(c) => calls[c].edits = <<>>

\* C17 as claimed: no request is repeated, and after the first failure of any
\* step (the creation of the folder included) no further mutating request is
\* issued in the call.
C17_AnyFailureIsTerminal ==
    \A c \in Calls :
        /\ OneRequestEach(c)
        /\ calls[c].binTx = "refused" => calls[c].nImport = 0 /\ calls[c].edits = <<>>

\* C17 as amended: no request is repeated and a failed import is terminal; a
\* refused creation of the folder is terminal in the host script only, the
\* bridge class goes on to issue its import request (into the project root when
\* it holds no folder).
C17_NoRetry ==
    \A c \in Calls :
        /\ OneRequestEach(c)
        /\ HostScriptCalled(c) /\ calls[c].binTx = "refused"
              => calls[c].nImport = 0 /\ calls[c].edits = <<>>
        /\ Imports(c) /\ calls[c].binTx = "refused" /\ Done(c)
              => calls[c].nImport = 1 /\ calls[c].target = SearchFolder(calls[c].bin)

\* The folder could not be created, the file was imported once into the root
\* and inserted once.
C17_Witness ==
    \E c \in Calls :
        /\ Done(c) /\ calls[c].op = "importAndInsert"
        /\ calls[c].binTx = "refused"
        /\ calls[c].nImport = 1 /\ Len(calls[c].edits) = 1

\* Call c is a finished getAudioTracks.
ListedTracks(c) == Done(c) /\ calls[c].op \in {"getAudioTracks", "es_getAudioTracks"}

\* The label expected for the k-th track (index k - 1) when the host has no name
\* for it.
ExpectedTrackLabel(k) ==
    CASE k = 1 -> <<"A", "u", "d", "i", "o", " ", "1">>
      [] k = 2 -> <<"A", "u", "d", "i", "o", " ", "2">>
      [] k = 3 -> <<"A", "u", "d", "i", "o", " ", "3">>
      [] OTHER -> <<"A", "u", "d", "i", "o", " ", "4">>

\* C18: getAudioTracks never ends in an error; without a project, without an
\* active sequence or when a host call throws it returns the empty list, and
\* otherwise one entry per audio track, in order, with indices 0..trackCount-1
\* and the host's name or the label "Audio <index + 1>".
C18_AudioTracksListed ==
    \A c \in Calls :
        ListedTracks(c)
           => /\ calls[c].err = "none"
              /\ IF ~projectOpen \/ ~sequenceActive \/ calls[c].threw # "none"
                 THEN calls[c].tracks = <<>>
                 ELSE /\ Len(calls[c].tracks) = trackCount
                      /\ \A k \in 1..trackCount :
                            /\ calls[c].tracks[k].index = k - 1
                            /\ calls[c].tracks[k].name =
                                  IF calls[c].hostNames[k] = <<>>
                                  THEN ExpectedTrackLabel(k)
                                  ELSE calls[c].hostNames[k]

\* Two tracks listed, the first without a host name and the second with one.
C18_Witness ==
    \E c \in Calls :
        /\ ListedTracks(c)
        /\ trackCount = 2
        /\ calls[c].threw = "none"
        /\ calls[c].hostNames = << <<>>, <<"M">> >>
        /\ calls[c].tracks = << [index |-> 0, name |-> <<"A", "u", "d", "i", "o", " ", "1">>],
                                [index |-> 1, name |-> <<"M">>] >>

\* The empty list returned because the host threw while a sequence was active.
C18_WitnessThrew ==
    \E c \in Calls :
        /\ ListedTracks(c)
        /\ projectOpen /\ sequenceActive /\ trackCount > 0
        /\ calls[c].threw = "read"
        /\ calls[c].tracks = <<>>

\* The directory part of a project path: everything before its last separator.
ExpectedDirectory(path) ==
    CASE path = <<"d", "/", "p">> -> <<"d">>
      [] path = <<"d", "\\", "p">> -> <<"d">>
      [] path = <<"d", "/", "e", "\\", "p">> -> <<"d", "/", "e">>
      [] OTHER -> <<>>

\* What the host script returns for a project path: the path up to and including
\* its last separator.
ExpectedDirectoryWithSeparator(path) ==
    CASE path = <<"/", "p">> -> <<"/">>
      [] path = <<"d", "/", "p">> -> <<"d", "/">>
      [] path = <<"d", "\\", "p">> -> <<"d", "\\">>
      [] path = <<"d", "/", "e", "\\", "p">> -> <<"d", "/", "e", "\\">>
      [] OTHER -> <<>>

\* c is a finished getProjectPath of the given operation names.
ProjectPathRead(c, ops) == Done(c) /\ calls[c].op \in ops

\* getProjectPath as claimed, for the calls of the given operation names: no
\* error; absent without project or path; a returned directory is the part of
\* the path before its last separator and is never the empty string.
DirectoryOrAbsent(ops) ==
    \A c \in Calls :
        ProjectPathRead(c, ops)
           => /\ calls[c].err = "none"
              /\ ~projectOpen \/ calls[c].projPath = <<>> => calls[c].absent
              /\ ~calls[c].absent
                    => /\ calls[c].dir # <<>>
                       /\ calls[c].dir = ExpectedDirectory(calls[c].projPath)
              /\ ExpectedDirectory(calls[c].projPath) = <<>> => calls[c].absent

\* C19 as claimed, of both packagings.
C19_DirectoryOrAbsent == DirectoryOrAbsent({"getProjectPath", "es_getProjectPath"})

\* C19: getProjectPath never ends in an error. The bridge returns the part of
\* the project path before its last separator, and absent when there is no
\* project, no path, a host exception or an empty directory part; the host
\* script returns the path up to and including its last separator, and the
\* empty string in the cases where the bridge returns absent unless the only
\* separator is the first character.
C19_DirectoryPerPackaging ==
    /\ DirectoryOrAbsent({"getProjectPath"})
    /\ \A c \in Calls :
          ProjectPathRead(c, {"es_getProjectPath"})
             => /\ calls[c].err = "none"
                /\ ~calls[c].absent
                /\ calls[c].dir = ExpectedDirectoryWithSeparator(calls[c].projPath)

\* The bridge returned the directory of a path with both kinds of separator.
C19_Witness ==
    \E c \in Calls :
        /\ ProjectPathRead(c, {"getProjectPath"})
        /\ calls[c].projPath = <<"d", "/", "e", "\\", "p">>
        /\ ~calls[c].absent
        /\ calls[c].dir = <<"d", "/", "e">>

\* The host script, given the same path, kept the separator.
C19_WitnessHostScript ==
    \E c \in Calls :
        /\ ProjectPathRead(c, {"es_getProjectPath"})
        /\ calls[c].projPath = <<"d", "/", "e", "\\", "p">>
        /\ calls[c].dir = <<"d", "/", "e", "\\">>

\* Call c is a finished importAndInsert in which the host did all it was asked:
\* the folder was there or its creation was applied, the import was accepted and
\* added an item whose identity can be read, and the edit was applied.
HostDidAll(c) ==
    /\ Done(c) /\ calls[c].op \in {"importAndInsert", "es_importAndInsert"}
    /\ calls[c].binTx # "refused"
    /\ calls[c].success /\ calls[c].added
    /\ items[Len(items)].idOk
    /\ calls[c].edits # <<>> /\ calls[c].edits[1].ok
    /\ calls[c].threw = "none"

\* C20: with a project open, a sequence of at least one audio track active and
\* the playhead at T, an importAndInsert with a track index at or beyond the track
\* count, served by the host at every step, leaves exactly one Voiceovers folder
\* holding the new item, has executed exactly one insert edit, of that item, at T
\* on the last track (track 1 of 2), with the playhead still at T, and returns the
\* new item.
C20_EndToEnd ==
    \A c \in Calls :
        HostDidAll(c) /\ trackCount >= 1 /\ calls[c].track >= trackCount
           => /\ calls[c].err = "none"
              /\ Cardinality(VoiceoverBins) = 1
              /\ calls[c].result = Len(items)
              /\ ~items[calls[c].result].bin
              /\ items[calls[c].result].parent \in VoiceoverBins
              /\ calls[c].edits =
                    << [edit |-> [item |-> calls[c].result, pos |-> playhead,
                                  track |-> trackCount - 1],
                        ok |-> TRUE] >>
              /\ timeline[Len(timeline)] = calls[c].edits[1].edit

\* importAndInsert(path, 5) on two tracks in a project that had no Voiceovers
\* folder: the folder is created, the item imported into it and inserted on
\* track 1.
C20_Witness ==
    \E c \in Calls :
        /\ HostDidAll(c) /\ calls[c].op = "importAndInsert"
        /\ trackCount = 2 /\ calls[c].track = 5
        /\ calls[c].binTx = "ok"
        /\ calls[c].result = Len(items)
        /\ calls[c].edits[1].edit.track = 1
        /\ calls[c].edits[1].edit.pos = playhead
        /\ Len(timeline) = 1

\* C30: two overlapping importFile calls for different files, each of which
\* added an item whose identity can be read, each return the item their own
\* import request added, and so never the same item.
C30_OverlappingImportsReturnOwnItem ==
    \A c, d \in Calls :
        /\ c # d
        /\ Done(c) /\ calls[c].op = "importFile" /\ calls[c].err = "none"
        /\ Done(d) /\ calls[d].op = "importFile" /\ calls[d].err = "none"
        /\ calls[c].path # calls[d].path
        /\ calls[c].imported # NULL /\ calls[d].imported # NULL
        /\ items[calls[c].imported].idOk /\ items[calls[d].imported].idOk
        => /\ calls[c].result = calls[c].imported
           /\ calls[c].result # calls[d].result

\* The message getSubscription's error carries for each answer, written out.
ExpectedSubscriptionMessage(resp) ==
    CASE resp.kind = "rejected" -> <<"Failed", "to", "fetch">>
      [] resp.kind = "http" /\ resp.status = 403 ->
            <<"Failed", "to", "fetch", "subscription", "(", "403", ")">>
      [] resp.kind = "http" /\ resp.status = 429 ->
            <<"Failed", "to", "fetch", "subscription", "(", "429", ")">>
      [] resp.kind = "http" /\ resp.status = 500 ->
            <<"Failed", "to", "fetch", "subscription", "(", "500", ")">>
      [] OTHER -> <<>>

SubscriptionSucceeded == vk.sub.kind = "http" /\ vk.sub.status = 200
SubscriptionUnauthorized == vk.sub.kind = "http" /\ vk.sub.status = 401
VoicesSucceeded == vk.voices.kind = "http" /\ vk.voices.status = 200

\* C24: validateKey succeeds exactly when the subscription request succeeds, or
\* fails with 401 and the voices request then succeeds; any other failure of the
\* subscription request is thrown on as it is and the voices endpoint is not
\* called; when both requests fail the error is "Unauthorized - invalid API key
\* (401)"; a call issues at most two requests, the subscription one first.
C24_ValidateKey ==
    /\ Len(vk.requests) <= 2
    /\ vk.pc = "done"
          => /\ vk.ok <=> \/ SubscriptionSucceeded
                          \/ SubscriptionUnauthorized /\ VoicesSucceeded
             /\ vk.requests[1] = "subscription"
             /\ ~SubscriptionSucceeded /\ ~SubscriptionUnauthorized
                   => /\ ~vk.ok
                      /\ vk.message = ExpectedSubscriptionMessage(vk.sub)
                      /\ vk.requests = <<"subscription">>
                      /\ vk.voices = NoResponse
             /\ SubscriptionSucceeded => vk.requests = <<"subscription">>
             /\ SubscriptionUnauthorized
                   => /\ vk.requests = <<"subscription", "voices">>
                      /\ ~VoicesSucceeded
                            => vk.message = <<"Unauthorized", "invalid", "API", "key",
                                              "(", "401", ")">>

\* The key lacks the permission for the subscription endpoint and is accepted
\* through the voices endpoint.
C24_Witness ==
    /\ vk.pc = "done" /\ vk.ok
    /\ SubscriptionUnauthorized /\ VoicesSucceeded
    /\ vk.voiceCount = 1
    /\ Len(requestLog) >= 2

\* A failure that is not 401 was thrown on after one request.
C24_WitnessPropagated ==
    /\ vk.pc = "done" /\ ~vk.ok
    /\ vk.sub.status = 500
    /\ vk.message = <<"Failed", "to", "fetch", "subscription", "(", "500", ")">>

\* The entries of the history are in the order of their addition, newest first.
NewestFirst(h) == \A i, j \in 1..Len(h) : i < j => h[i].time > h[j].time

ConnectCompleted == Len(connecting') = Len(connecting) - 1
ConnectSucceeded == ConnectCompleted /\ lastValidation'.ok
ConnectFailed == ConnectCompleted /\ ~lastValidation'.ok

\* C23: Connect validates the key before anything else: the click itself stores
\* nothing and leaves the screen alone; a key is written to storage only by the
\* step in which its validation succeeded, and only that step sets the timer
\* that leads to the main screen; a failed validation leaves the screen and the
\* storage as they were, sets no timer, and leaves the Connect button enabled
\* exactly when the key now in the field has at least ten characters.
C23_ConnectValidatesFirst ==
    [][ /\ Len(connecting') > Len(connecting) =>
              storedKey' = storedKey /\ currentScreen' = currentScreen /\ timers' = timers
        /\ (storedKey' # storedKey /\ storedKey' # <<>>) =>
              ConnectSucceeded /\ storedKey' = lastValidation'.key
        /\ timers' > timers => ConnectSucceeded /\ storedKey' = lastValidation'.key
        /\ ConnectSucceeded => timers' = timers + 1 /\ currentScreen' = currentScreen
        /\ ConnectFailed =>
              /\ storedKey' = storedKey /\ currentScreen' = currentScreen /\ timers' = timers
              /\ connectDisabled' = (Len(Trim(setupApiKey')) < KEY_MIN_LENGTH)
      ]_vars

\* A validation has failed: the setup screen is still shown, nothing is stored,
\* and Connect is enabled again for the ten-character key in the field.
C23_Witness ==
    /\ lastValidation.by = "connect" /\ ~lastValidation.ok
    /\ currentScreen = "setup" /\ storedKey = <<>> /\ validated = {}
    /\ ~connectDisabled /\ Len(Trim(setupApiKey)) >= KEY_MIN_LENGTH

\* A validation has succeeded and its timer has fired: main screen, key stored.
C23_WitnessConnected ==
    /\ lastValidation.by = "connect" /\ lastValidation.ok
    /\ currentScreen = "main" /\ storedKey = lastValidation.key /\ timers = 0

\* C28: from a Disconnect click until the next Connect click the setup screen
\* is shown, no key is stored, the client's key is empty and voicesCache is
\* empty.
C28_DisconnectedStaysCleared ==
    disconnected =>
        /\ currentScreen = "setup"
        /\ storedKey = <<>>
        /\ apiKey = <<>>
        /\ voicesCache = <<>>

\* C29: while the main screen is shown, storage holds a key that the service
\* accepted.
C29_MainScreenHasValidatedKey ==
    currentScreen = "main" => (storedKey # <<>> /\ storedKey \in validated)

\* importAndInsert calls the panel has in flight
InFlightInserts == inserting + (IF gen.pc = "insert" THEN 1 ELSE 0)

\* C21: the panel never has more than one importAndInsert call in flight.
C21_OneImportAndInsertInFlight == InFlightInserts <= 1

\* The Generate handler has finished a run whose speech request succeeded.
GenerateRan == gen.pc = "idle" /\ gen.result \notin {"none", "speech"}

\* C22: once the speech is there, a run that found the open project's
\* directory and did not have to ask the user saves the file as
\* <directory>/Voiceovers/<file name>, and a run with no project open still
\* saves the file: it does not end with "No save location available".
C22_SavedWithOrWithoutProject ==
    GenerateRan =>
        /\ (projectOpen /\ ~gen.absent /\ ~gen.picked /\ gen.savePath # <<>>) =>
               gen.savePath = gen.dir \o <<"/", "Voiceovers", "/", FILE_NAME>>
        /\ ~projectOpen => gen.result # NO_SAVE_LOCATION

\* The handler ends in this step.
GenerateEnds == gen.pc # "idle" /\ gen'.pc = "idle"

\* C25: while the Generate handler is between its click and its end,
\* isGenerating is true and the button is disabled, and no click is accepted, so
\* there is one run at most; isGenerating is false whenever no run is in flight;
\* the step that ends a run leaves the button enabled exactly when a voice is
\* selected and the script text is not blank.
C25_OneGenerateInFlight ==
    /\ [](gen.pc # "idle" => isGenerating /\ generateDisabled)
    /\ [](gen.pc = "idle" => ~isGenerating)
    /\ [][ /\ gen.pc # "idle" => generated' = generated
           /\ GenerateEnds =>
                 /\ ~isGenerating'
                 /\ generateDisabled' = ~(voiceValue' # "" /\ Trim(scriptText') # <<>>)
         ]_vars

\* A run is in flight while the voices are being reloaded and the script text
\* has been edited: the dropdown shows "Loading voices...", the button is
\* disabled.
C25_Witness ==
    /\ gen.pc \notin {"idle", "speech"} /\ isGenerating /\ generateDisabled
    /\ loads > 0 /\ voiceValue = "" /\ scriptText # gen.text

\* A run has ended with a voice selected and text in the field: the button is
\* enabled again.
C25_WitnessEnabled ==
    /\ gen.pc = "idle" /\ gen.result # "none" /\ ~isGenerating /\ ~generateDisabled
    /\ voiceValue # "" /\ Trim(scriptText) # <<>>

\* C27: the history changes only in the step that ends a run successfully: the
\* speech was generated, the file written to the save path and, if the run
\* started an import, the import resolved; the new first entry carries the run's
\* save path. A run starts importAndInsert only when the auto-insert box is
\* checked at that moment.
C27_HistoryOnlyOnSuccess ==
    [][ /\ history' # history =>
              /\ GenerateEnds /\ gen'.result = "ok"
              /\ gen.pc \in {"write", "insert"}
              /\ gen.pc = "insert" => gen'.inserted
              /\ history'[1].path = gen.savePath /\ lastAudioPath' = gen.savePath
              /\ Len(history') = Len(history) + 1
        /\ (GenerateEnds /\ gen'.result # "ok") => history' = history
        /\ (gen.pc # "insert" /\ gen'.pc = "insert") => autoInsert
        /\ (gen.pc = "write" /\ gen' # gen /\ ~autoInsert) =>
              gen'.pc = "idle" /\ ~gen'.inserted
      ]_vars

\* A run with the box unchecked has ended successfully: one history entry, no
\* import started.
C27_Witness ==
    /\ gen.pc = "idle" /\ gen.result = "ok" /\ ~gen.inserted
    /\ Len(history) = 1 /\ history[1].path = gen.savePath /\ lastAudioPath = gen.savePath

\* A run's import was rejected: no history entry.
C27_WitnessInsertRejected ==
    /\ gen.pc = "idle" /\ gen.result = "insert" /\ history = <<>> /\ lastAudioPath # <<>>

====
